---- MODULE Spec2Model ----
(***************************************************************************)
(* Dependency resolution, cache and lockfile of quantum-cli.               *)
(*                                                                         *)
(* A Rust String is a sequence of one-character strings, so that           *)
(* format!, replace and split are computed as the code computes them.      *)
(* An Option<String> is None or the string itself.                         *)
(***************************************************************************)
EXTENDS Integers, Sequences, FiniteSets, TLC

VARIABLES
    topToml,     \* Quantum.toml of the package being built (file content)
    registry,    \* remote registry: <<name, version>> -> published archive
    gitRemote,   \* remote repositories: url -> (ref -> Quantum.toml content)
    fsPaths,     \* local directories outside the cache: path -> directory
    cache,       \* ~/.quantum/cache: identity -> directory
    lockfile,    \* Quantum.lock of the package being built
    pc,          \* position of the build command
    to_resolve,  \* resolve's worklist (VecDeque)
    resolved,    \* resolve's ResolvedDependencies (HashMap name -> DependencyInfo)
    error,       \* the error the command ended with, "" when none
    io,          \* every I/O operation performed so far, in order
    fetchLog,    \* resolve_single invocations of the current resolve call
    iter,        \* worklist entries popped by the current resolve call
    calls,       \* number of build commands started
    prevResult,  \* what the previous resolve call returned
    procs,       \* resolver invocations of other processes on the same cache
    tree,        \* the files under the current directory: path -> node
    args         \* the last `quantum new` command: its arguments and its result

vars == <<topToml, registry, gitRemote, fsPaths, cache, lockfile, pc, to_resolve,
          resolved, error, io, fetchLog, iter, calls, prevResult, procs, tree, args>>

world == <<topToml, registry, gitRemote, fsPaths>>

-----------------------------------------------------------------------------
(* Strings *)

None == <<"<none>">>
is_some(o) == o # None

Letters == {"a", "b", "c", "d", "g", "m", "p", "r", "t", "x", "y", "z"}
Digits == {"0", "1", "2", "3", "4", "5", "6", "7", "8", "9"}

EmptyMap == <<>>

\* format!("{}-{}", a, b)
format_dash(a, b) == a \o <<"-">> \o b

\* str::replace(pattern chars, "_")
replace_chars(s, chars) == [i \in 1..Len(s) |-> IF s[i] \in chars THEN "_" ELSE s[i]]

\* str::split('.'): the parts between the dots
RECURSIVE split_dot(_)
split_dot(s) ==
    IF \A i \in 1..Len(s) : s[i] # "."
    THEN <<s>>
    ELSE LET k == CHOOSE i \in 1..Len(s) : s[i] = "." /\ \A j \in 1..(i - 1) : s[j] # "."
         IN <<SubSeq(s, 1, k - 1)>> \o split_dot(SubSeq(s, k + 1, Len(s)))

DigitValue(c) ==
    CASE c = "0" -> 0 [] c = "1" -> 1 [] c = "2" -> 2 [] c = "3" -> 3 [] c = "4" -> 4
      [] c = "5" -> 5 [] c = "6" -> 6 [] c = "7" -> 7 [] c = "8" -> 8 [] c = "9" -> 9

\* u32::MAX = 4294967295, digit by digit
U32MaxDigits == <<4, 2, 9, 4, 9, 6, 7, 2, 9, 5>>

RECURSIVE strip_zeros(_)
strip_zeros(s) == IF s # <<>> /\ s[1] = "0" THEN strip_zeros(Tail(s)) ELSE s

\* digits (no leading zero) denote a number <= u32::MAX
fits_u32(s) ==
    \/ Len(s) < Len(U32MaxDigits)
    \/ /\ Len(s) = Len(U32MaxDigits)
       /\ \/ \A i \in 1..Len(s) : DigitValue(s[i]) = U32MaxDigits[i]
          \/ \E k \in 1..Len(s) :
                /\ DigitValue(s[k]) < U32MaxDigits[k]
                /\ \A j \in 1..(k - 1) : DigitValue(s[j]) = U32MaxDigits[j]

\* str::parse::<u32>().is_ok(): an optional '+', then one or more digits, in range
parse_u32_ok(part) ==
    LET body == IF part # <<>> /\ part[1] = "+" THEN Tail(part) ELSE part
    IN /\ body # <<>>
       /\ \A i \in 1..Len(body) : body[i] \in Digits
       /\ fits_u32(strip_zeros(body))

\* faulty variant: the number of parts is not checked
is_valid_version_any_parts(version) ==
    LET parts == split_dot(version)
    IN \A i \in 1..Len(parts) : parse_u32_ok(parts[i])

is_valid_version(version) ==
    LET parts == split_dot(version)
    IN IF Len(parts) # 3 THEN FALSE
       ELSE \A i \in 1..Len(parts) : parse_u32_ok(parts[i])

-----------------------------------------------------------------------------
(* Manifest *)

Simple(v) ==
    [simple |-> TRUE, version |-> v, git |-> None, branch |-> None, tag |-> None,
     rev |-> None, path |-> None]

Detailed(v, g, b, t, r, p) ==
    [simple |-> FALSE, version |-> v, git |-> g, branch |-> b, tag |-> t,
     rev |-> r, path |-> p]

\* A well-formed Quantum.toml: its tables are listed in the order of the text.
\* It has a [build] table without keys, so default_opt_level and
\* default_address_size give the two values.
Toml(n, v, deps) ==
    [kind |-> "toml", name |-> n, version |-> v, description |-> None,
     license |-> None, edition |-> "2024", opt_level |-> 2, address_size |-> 64,
     dependencies |-> deps, dev_dependencies |-> <<>>]

NoFile == [kind |-> "nofile"]
Garbage == [kind |-> "garbage"]

\* The HashMap a TOML table deserializes into: the order of the text is lost.
to_hashmap(table) ==
    [n \in {table[i][1] : i \in 1..Len(table)} |->
        (CHOOSE e \in {table[i] : i \in 1..Len(table)} : e[1] = n)[2]]

toml_from_str(file) ==
    [package |-> [name |-> file.name, version |-> file.version,
                  description |-> file.description, license |-> file.license,
                  edition |-> file.edition],
     dependencies |-> to_hashmap(file.dependencies),
     dev_dependencies |-> to_hashmap(file.dev_dependencies),
     build |-> [opt_level |-> file.opt_level, address_size |-> file.address_size]]

validate(m) ==
    /\ m.package.name # <<>>
    /\ \A i \in 1..Len(m.package.name) :
          m.package.name[i] \in Letters \cup Digits \cup {"_", "-"}
    /\ is_valid_version(m.package.version)
    /\ m.package.edition \in {"2024"}
    /\ m.build.opt_level <= 3
    /\ m.build.address_size \in {32, 64}

\* faulty variant: the development-only table is traversed too
all_dependencies(m) ==
    [n \in DOMAIN m.dependencies \cup DOMAIN m.dev_dependencies |->
        IF n \in DOMAIN m.dev_dependencies THEN m.dev_dependencies[n] ELSE m.dependencies[n]]

\* the table resolve iterates: &manifest.dependencies
traversed_deps(m) == m.dependencies

\* Manifest::load: read, parse, validate
Manifest_load_ok(file) == file.kind = "toml" /\ validate(toml_from_str(file))
Manifest_load(file) == toml_from_str(file)

-----------------------------------------------------------------------------
(* SourceFetcher: each operator yields the set of outcomes the call can have.   *)
(* An outcome is the Result (err = "" for Ok), the cache afterwards and the     *)
(* I/O operations performed, in order.                                          *)

NoInfo == [none |-> TRUE]

Ok(info, c, ops, v) == [err |-> "", info |-> info, cache |-> c, io |-> ops, variant |-> v]
Err(e, c, ops, v) == [err |-> e, info |-> NoInfo, cache |-> c, io |-> ops, variant |-> v]

Dir(file) == [toml |-> file]

\* faulty variant: the cache directory is never found
exists_never(c, id) == FALSE

exists(c, id) == id \in DOMAIN c

put(f, k, v) == [x \in DOMAIN f \cup {k} |-> IF x = k THEN v ELSE f[x]]

\* faulty variant: the record is named after its cache directory
load_cached_info_by_dir(id, m) ==
    [name |-> id, version |-> m.package.version,
     path |-> <<"cache", id>>, manifest |-> m, source |-> "Registry"]

\* load_cached_dependency: the record built from the manifest of a cache directory
load_cached_info(id, m) ==
    [name |-> m.package.name, version |-> m.package.version,
     path |-> <<"cache", id>>, manifest |-> m, source |-> "Registry"]

load_cached_dependency(id, c, ops, v) ==
    LET file == c[id].toml
        ops2 == Append(ops, <<"load", <<"cache", id>>>>)
    IN IF Manifest_load_ok(file)
       THEN Ok(load_cached_info(id, Manifest_load(file)), c, ops2, v)
       ELSE Err("ParseError", c, ops2, v)

\* Registry::download: the request can fail; an unknown package is "not found"
download(reg, name, version) ==
    {[err |-> "FetchError"]}
    \cup (IF <<name, version>> \in DOMAIN reg
          THEN {[err |-> "", archive |-> reg[<<name, version>>]]}
          ELSE {[err |-> "NotFound"]})

\* faulty variant: the cache root is emptied before the archive is extracted
extract_archive_fresh_root(archive, c, id) ==
    IF archive.wellformed
    THEN {[err |-> "", cache |-> put(EmptyMap, id, Dir(archive.toml))]}
    ELSE {[err |-> "ExtractError", cache |-> put(EmptyMap, id, Dir(f))] : f \in {NoFile, archive.toml}}

\* extract_archive: create_dir_all(dest), then unpack; a malformed archive fails
\* after the directory was created, with the manifest written or not
extract_archive(archive, c, id) ==
    IF archive.wellformed
    THEN {[err |-> "", cache |-> put(c, id, Dir(archive.toml))]}
    ELSE {[err |-> "ExtractError", cache |-> put(c, id, Dir(f))] : f \in {NoFile, archive.toml}}

registry_cache_key(name, version) == format_dash(name, version)

resolve_registry_dependency(name, version, c, reg) ==
    LET id == registry_cache_key(name, version)
        dl == <<"download", name, version>>
        ex == <<"extract", id>>
    IN IF exists(c, id)
       THEN {load_cached_dependency(id, c, <<>>, "Registry")}
       ELSE UNION {
              IF d.err # ""
              THEN {Err(d.err, c, <<dl>>, "Registry")}
              ELSE {IF x.err # ""
                    THEN Err(x.err, x.cache, <<dl, ex>>, "Registry")
                    ELSE load_cached_dependency(id, x.cache, <<dl, ex>>, "Registry")
                    : x \in extract_archive(d.archive, c, id)}
              : d \in download(reg, name, version)}

\* faulty variant: the directory is copied into the cache before it is loaded
resolve_path_dependency_copy(name, path, c, fs) ==
    IF path \notin DOMAIN fs
    THEN {Err("NotFound", c, <<>>, "Path")}
    ELSE LET file == fs[path].toml
             ops == <<<<"load", <<"fs", path>>>>>>
             copied == put(c, format_dash(name, replace_chars(path, {"/"})), fs[path])
         IN IF Manifest_load_ok(file)
            THEN {Ok([name |-> name, version |-> Manifest_load(file).package.version,
                      path |-> <<"fs", path>>, manifest |-> Manifest_load(file),
                      source |-> "Path"], copied, ops, "Path")}
            ELSE {Err("ParseError", copied, ops, "Path")}

resolve_path_dependency(name, path, c, fs) ==
    IF path \notin DOMAIN fs
    THEN {Err("NotFound", c, <<>>, "Path")}
    ELSE LET file == fs[path].toml
             ops == <<<<"load", <<"fs", path>>>>>>
         IN IF Manifest_load_ok(file)
            THEN {Ok([name |-> name, version |-> Manifest_load(file).package.version,
                      path |-> <<"fs", path>>, manifest |-> Manifest_load(file),
                      source |-> "Path"], c, ops, "Path")}
            ELSE {Err("ParseError", c, ops, "Path")}

HEAD == <<"H", "E", "A", "D">>

\* faulty variant: the tag is looked at before the branch
git_ref_str_tag_first(detailed) ==
    IF is_some(detailed.tag) THEN detailed.tag
    ELSE IF is_some(detailed.branch) THEN detailed.branch
    ELSE IF is_some(detailed.rev) THEN detailed.rev
    ELSE HEAD

git_ref_str(detailed) ==
    IF is_some(detailed.branch) THEN detailed.branch
    ELSE IF is_some(detailed.tag) THEN detailed.tag
    ELSE IF is_some(detailed.rev) THEN detailed.rev
    ELSE HEAD

git_cache_key(git_url, detailed) ==
    format_dash(replace_chars(git_url, {"/", ":"}),
                replace_chars(git_ref_str(detailed), {"/"}))

\* clone_git_repo: git clone [--branch b] url dest, then git checkout rev.
\* A failed clone leaves no directory; a failed checkout leaves the clone.
clone_git_repo(url, id, detailed, c, remote) ==
    LET cl == <<"clone", url, detailed.branch>>
        co == <<"checkout", id, detailed.rev>>
        from == IF is_some(detailed.branch) THEN detailed.branch ELSE HEAD
        cloned == put(c, id, Dir(remote[url][from]))
    IN {[err |-> "FetchError", cache |-> c, io |-> <<cl>>]}
       \cup (IF url \notin DOMAIN remote \/ from \notin DOMAIN remote[url]
             THEN {}
             ELSE IF ~is_some(detailed.rev)
             THEN {[err |-> "", cache |-> cloned, io |-> <<cl>>]}
             ELSE IF detailed.rev \in DOMAIN remote[url]
             THEN {[err |-> "", cache |-> put(c, id, Dir(remote[url][detailed.rev])),
                    io |-> <<cl, co>>]}
             ELSE {[err |-> "FetchError", cache |-> cloned, io |-> <<cl, co>>]})

\* faulty variant: the repository is cloned whether or not the cache directory exists
resolve_git_always_clone(name, git_url, detailed, c, remote) ==
    LET id == git_cache_key(git_url, detailed)
    IN {IF g.err # ""
        THEN Err(g.err, g.cache, g.io, "Git")
        ELSE load_cached_dependency(id, g.cache, g.io, "Git")
        : g \in clone_git_repo(git_url, id, detailed, c, remote)}

resolve_git_dependency(name, git_url, detailed, c, remote) ==
    LET id == git_cache_key(git_url, detailed)
    IN IF exists(c, id)
       THEN {load_cached_dependency(id, c, <<>>, "Git")}
       ELSE {IF g.err # ""
             THEN Err(g.err, g.cache, g.io, "Git")
             ELSE load_cached_dependency(id, g.cache, g.io, "Git")
             : g \in clone_git_repo(git_url, id, detailed, c, remote)}

\* faulty variant: a declaration without version, git and path is asked of the registry
resolve_single_default(name, dep, c, reg, fs, remote) ==
    IF dep.simple
    THEN resolve_registry_dependency(name, dep.version, c, reg)
    ELSE IF is_some(dep.path)
    THEN resolve_path_dependency(name, dep.path, c, fs)
    ELSE IF is_some(dep.git)
    THEN resolve_git_dependency(name, dep.git, dep, c, remote)
    ELSE resolve_registry_dependency(name, dep.version, c, reg)

\* faulty variant: git is looked at before path
resolve_single_git_first(name, dep, c, reg, fs, remote) ==
    IF dep.simple
    THEN resolve_registry_dependency(name, dep.version, c, reg)
    ELSE IF is_some(dep.git)
    THEN resolve_git_dependency(name, dep.git, dep, c, remote)
    ELSE IF is_some(dep.path)
    THEN resolve_path_dependency(name, dep.path, c, fs)
    ELSE IF is_some(dep.version)
    THEN resolve_registry_dependency(name, dep.version, c, reg)
    ELSE {Err("SpecError", c, <<>>, "Invalid")}

resolve_single(name, dep, c, reg, fs, remote) ==
    IF dep.simple
    THEN resolve_registry_dependency(name, dep.version, c, reg)
    ELSE IF is_some(dep.path)
    THEN resolve_path_dependency(name, dep.path, c, fs)
    ELSE IF is_some(dep.git)
    THEN resolve_git_dependency(name, dep.git, dep, c, remote)
    ELSE IF is_some(dep.version)
    THEN resolve_registry_dependency(name, dep.version, c, reg)
    ELSE {Err("SpecError", c, <<>>, "Invalid")}

-----------------------------------------------------------------------------
(* ResolvedDependencies and Lockfile *)

\* faulty variant: the already-resolved check never answers yes
contains_never(res, name) == FALSE

contains(res, name) == name \in DOMAIN res

\* faulty variant: the record is not stored
add_nothing(res, name, info) == res

add(res, name, info) == put(res, name, info)

\* Quantum.lock: absent, or a file with the text written to it
NoLock == [exists |-> FALSE, text |-> <<>>]
File(text) == [exists |-> TRUE, text |-> text]

\* A TOML document is the sequence of its lines: key = value lines and
\* [table] headers.
toml_str(key, s) == [kind |-> "kv", key |-> key, type |-> "str", val |-> s]
toml_int(key, n) == [kind |-> "kv", key |-> key, type |-> "int", val |-> n]
toml_table(path) == [kind |-> "table", path |-> path]

\* an Option<String> field: a None is left out of the document
toml_opt(key, o) == IF is_some(o) THEN <<toml_str(key, o)>> ELSE <<>>

\* one [dependencies.<key>] table of the lockfile
locked_lines(key, e) ==
    <<toml_table(<<"dependencies", key>>),
      toml_str("name", e.name), toml_str("version", e.version), toml_str("source", e.source)>>
    \o toml_opt("source_url", e.source_url)
    \o toml_opt("checksum", e.checksum)

RECURSIVE tables_lines(_, _)
tables_lines(deps, order) ==
    IF order = <<>> THEN <<>>
    ELSE locked_lines(order[1], deps[order[1]]) \o tables_lines(deps, Tail(order))

\* toml::to_string_pretty(&Lockfile): the values first, then the tables of the
\* map in its iteration order; an empty map is written as its header alone
to_string_pretty(lock, order) ==
    <<toml_int("version", lock.version)>>
    \o (IF DOMAIN lock.dependencies = {}
        THEN <<toml_table(<<"dependencies">>)>>
        ELSE tables_lines(lock.dependencies, order))

\* the table a line of the document belongs to
table_of(text, i) ==
    LET hs == {j \in 1..(i - 1) : text[j].kind = "table"}
    IN IF hs = {} THEN <<>>
       ELSE text[CHOOSE j \in hs : \A k \in hs : k <= j].path

\* the values of `key` in the table `path`
values_of(text, path, key, type) ==
    {text[i].val : i \in {j \in 1..Len(text) :
        /\ text[j].kind = "kv"
        /\ text[j].key = key
        /\ text[j].type = type
        /\ table_of(text, j) = path}}

keys_at(text, path) ==
    {text[i].key : i \in {j \in 1..Len(text) : text[j].kind = "kv" /\ table_of(text, j) = path}}

\* toml::from_str::<Lockfile>: version and the dependencies table are required,
\* name, version and source are required in every entry, a missing Option is
\* None; a table or a key given twice is an error
from_str_lockfile(text) ==
    LET headers == {i \in 1..Len(text) : text[i].kind = "table"}
        kvs == {i \in 1..Len(text) : text[i].kind = "kv"}
        names == {text[i].path[2] : i \in {j \in headers :
                     Len(text[j].path) = 2 /\ text[j].path[1] = "dependencies"}}
        one(path, key, type) == Cardinality(values_of(text, path, key, type)) = 1
        the(path, key, type) == CHOOSE v \in values_of(text, path, key, type) : TRUE
        opt(path, key) ==
            IF key \in keys_at(text, path) THEN the(path, key, "str") ELSE None
        wellformed ==
            /\ \A i, j \in headers : i # j => text[i].path # text[j].path
            /\ \A i, j \in kvs :
                  (i # j /\ text[i].key = text[j].key) => table_of(text, i) # table_of(text, j)
        complete ==
            /\ one(<<>>, "version", "int")
            /\ \E i \in headers : text[i].path[1] = "dependencies"
            /\ \A n \in names :
                  /\ \A k \in {"name", "version", "source"} : one(<<"dependencies", n>>, k, "str")
                  /\ \A k \in {"source_url", "checksum"} \cap keys_at(text, <<"dependencies", n>>) :
                        one(<<"dependencies", n>>, k, "str")
    IN IF ~(wellformed /\ complete)
       THEN [ok |-> FALSE]
       ELSE [ok |-> TRUE,
             lock |-> [version |-> the(<<>>, "version", "int"),
                       dependencies |->
                          [n \in names |->
                              [name |-> the(<<"dependencies", n>>, "name", "str"),
                               version |-> the(<<"dependencies", n>>, "version", "str"),
                               source |-> the(<<"dependencies", n>>, "source", "str"),
                               source_url |-> opt(<<"dependencies", n>>, "source_url"),
                               checksum |-> opt(<<"dependencies", n>>, "checksum")]]]]

\* Lockfile::load: read Quantum.lock and parse it
Lockfile_load(file) ==
    IF ~file.exists THEN [ok |-> FALSE] ELSE from_str_lockfile(file.text)

-----------------------------------------------------------------------------
(* DependencyResolver::resolve and the build command *)

DepthLimit == 100

\* faulty variant: the guard fires one level early
depth_exceeded_early(depth) == depth >= DepthLimit

depth_exceeded(depth) == depth > DepthLimit

\* The orders in which a HashMap can be iterated: every order of its keys
Orderings(S) ==
    {o \in [1..Cardinality(S) -> S] : \A i, j \in 1..Cardinality(S) : i # j => o[i] # o[j]}

\* faulty variant: the entries are pushed at the front of the worklist
push_all_front(queue, deps, depth, order) ==
    [i \in 1..Len(order) |-> [name |-> order[i], dep |-> deps[order[i]], depth |-> depth]]
    \o queue

\* faulty variant: the loop over the table stops after its first entry
push_all_first(queue, deps, depth, order) ==
    IF order = <<>> THEN queue
    ELSE Append(queue, [name |-> order[1], dep |-> deps[order[1]], depth |-> depth])

\* for (name, dep) in &deps { queue.push_back((name, dep, depth)) }
push_all(queue, deps, depth, order) ==
    queue \o [i \in 1..Len(order) |->
                [name |-> order[i], dep |-> deps[order[i]], depth |-> depth]]

\* faulty variant: the first entry is read but stays in the worklist
pop_front_keep(queue) == queue

pop_front(queue) == Tail(queue)

MaxCalls == 2

\* build::execute up to the first worklist entry: load the package, skip the
\* dependency step when the table is empty, else seed resolve's worklist
build_start ==
    /\ pc \in {"idle", "done", "failed"}
    /\ calls < MaxCalls
    /\ calls' = calls + 1
    /\ prevResult' = IF pc = "done"
                     THEN [resolved |-> resolved, fetchLog |-> fetchLog]
                     ELSE NoInfo
    /\ fetchLog' = <<>>
    /\ iter' = 0
    /\ resolved' = EmptyMap
    /\ UNCHANGED <<tree, args, procs, world, cache, lockfile, io>>
    /\ IF ~Manifest_load_ok(topToml)
       THEN /\ pc' = "failed"
            /\ error' = "ParseError"
            /\ to_resolve' = <<>>
       ELSE LET manifest == Manifest_load(topToml)
                deps == traversed_deps(manifest)
            IN IF DOMAIN manifest.dependencies = {}
               THEN /\ pc' = "done"
                    /\ error' = ""
                    /\ to_resolve' = <<>>
               ELSE /\ pc' = "resolving"
                    /\ error' = ""
                    /\ \E order \in Orderings(DOMAIN deps) :
                          to_resolve' = push_all(<<>>, deps, 0, order)

\* faulty variant: the error is recorded and the loop goes on with the next entry
bail_skip(e) ==
    /\ pc' = pc
    /\ error' = e
    /\ to_resolve' = Tail(to_resolve)
    /\ resolved' = resolved

\* DependencyResolver::resolve called on the loaded manifest, whatever its
\* dependency table holds: the worklist is seeded with the direct dependencies
resolve_call ==
    /\ pc \in {"idle", "done", "failed"}
    /\ calls < MaxCalls
    /\ Manifest_load_ok(topToml)
    /\ calls' = calls + 1
    /\ prevResult' = IF pc = "done"
                     THEN [resolved |-> resolved, fetchLog |-> fetchLog]
                     ELSE NoInfo
    /\ fetchLog' = <<>>
    /\ iter' = 0
    /\ resolved' = EmptyMap
    /\ error' = ""
    /\ pc' = "resolving"
    /\ LET deps == traversed_deps(Manifest_load(topToml))
       IN \E order \in Orderings(DOMAIN deps) :
             to_resolve' = push_all(<<>>, deps, 0, order)
    /\ UNCHANGED <<tree, args, procs, world, cache, lockfile, io>>

\* faulty variant: an empty ResultSet is reported as an error
resolve_ok_nonempty ==
    /\ pc = "resolving"
    /\ to_resolve = <<>>
    /\ pc' = IF resolved = EmptyMap THEN "failed" ELSE "done"
    /\ error' = IF resolved = EmptyMap THEN "Empty" ELSE error
    /\ UNCHANGED <<tree, args, procs, world, cache, lockfile, to_resolve, resolved, io, fetchLog, iter,
                   calls, prevResult>>

\* the worklist is empty: resolve returns Ok(resolved) to its caller
resolve_ok ==
    /\ pc = "resolving"
    /\ to_resolve = <<>>
    /\ pc' = "done"
    /\ UNCHANGED <<tree, args, procs, world, cache, lockfile, to_resolve, resolved, error, io, fetchLog, iter,
                   calls, prevResult>>

\* resolve ends with Err: its worklist and its ResolvedDependencies are dropped
bail(e) ==
    /\ pc' = "failed"
    /\ error' = e
    /\ to_resolve' = <<>>
    /\ resolved' = EmptyMap

\* one iteration of resolve's while loop
resolve_step ==
    /\ pc = "resolving"
    /\ to_resolve # <<>>
    /\ UNCHANGED <<tree, args, procs, world, lockfile, calls, prevResult>>
    /\ iter' = iter + 1
    /\ LET e == Head(to_resolve)
           rest == pop_front(to_resolve)
       IN IF depth_exceeded(e.depth)
          THEN /\ bail("DepthExceeded")
               /\ UNCHANGED <<cache, io, fetchLog>>
          ELSE IF contains(resolved, e.name)
          THEN /\ to_resolve' = rest
               /\ UNCHANGED <<pc, error, resolved, cache, io, fetchLog>>
          ELSE \E out \in resolve_single(e.name, e.dep, cache, registry, fsPaths, gitRemote) :
                  /\ cache' = out.cache
                  /\ io' = io \o out.io
                  /\ fetchLog' = Append(fetchLog, [name |-> e.name, dep |-> e.dep,
                                                   depth |-> e.depth,
                                                   variant |-> out.variant,
                                                   err |-> out.err, io |-> out.io])
                  /\ IF out.err # ""
                     THEN bail(out.err)
                     ELSE /\ LET deps == traversed_deps(out.info.manifest)
                             IN \E order \in Orderings(DOMAIN deps) :
                                   to_resolve' = push_all(rest, deps, e.depth + 1, order)
                          /\ resolved' = add(resolved, e.name, out.info)
                          /\ UNCHANGED <<pc, error>>

source_str(source) ==
    CASE source = "Registry" -> "registry"
      [] source = "Path" -> "path"
      [] source = "Git" -> "git"

\* faulty variant: the entries of the lockfile on disk are kept
from_resolved_merged(res) ==
    LET old == Lockfile_load(lockfile)
        kept == IF old.ok THEN old.lock.dependencies ELSE EmptyMap
    IN [version |-> 1,
        dependencies |->
           [n \in DOMAIN res \cup DOMAIN kept |->
               IF n \in DOMAIN res
               THEN [name |-> res[n].name, version |-> res[n].version,
                     source |-> source_str(res[n].source),
                     source_url |-> None, checksum |-> None]
               ELSE kept[n]]]

\* faulty variant: the entries are keyed by the name of the record
from_resolved_by_record_name(res) ==
    [version |-> 1,
     dependencies |->
        [k \in {res[n].name : n \in DOMAIN res} |->
            LET n == CHOOSE x \in DOMAIN res : res[x].name = k
            IN [name |-> res[n].name, version |-> res[n].version,
                source |-> source_str(res[n].source),
                source_url |-> None, checksum |-> None]]]

\* Lockfile::from_resolved
from_resolved(res) ==
    [version |-> 1,
     dependencies |->
        [n \in DOMAIN res |->
            [name |-> res[n].name, version |-> res[n].version,
             source |-> source_str(res[n].source),
             source_url |-> None, checksum |-> None]]]

\* faulty variant: only the dependencies map is written
save_dependencies_only(lock, order) == Tail(to_string_pretty(lock, order))

\* Lockfile::save: the text written to Quantum.lock
save(lock, order) == to_string_pretty(lock, order)

\* the worklist is empty: resolve returns Ok(resolved) and build::execute
\* writes the lockfile
resolve_return ==
    /\ pc = "resolving"
    /\ to_resolve = <<>>
    /\ pc' = "done"
    /\ LET lock == from_resolved(resolved)
       IN \E order \in Orderings(DOMAIN lock.dependencies) :
             lockfile' = File(save(lock, order))
    /\ UNCHANGED <<tree, args, procs, world, cache, to_resolve, resolved, error, io, fetchLog, iter, calls,
                   prevResult>>

-----------------------------------------------------------------------------
(* The new command and the files it creates. A path is the sequence of its    *)
(* components below the current directory, which is the empty path.           *)

DirNode == [kind |-> "dir"]
FileNode(content) == [kind |-> "file", content |-> content]

EmptyTree == <<>> :> DirNode
NoArgs == [none |-> TRUE]

SrcName == <<"s", "r", "c">>
MainQmName == <<"m", "a", "i", "n", ".", "q", "m">>
QuantumTomlName == <<"Q", "u", "a", "n", "t", "u", "m", ".", "t", "o", "m", "l">>
GitignoreName == <<".", "g", "i", "t", "i", "g", "n", "o", "r", "e">>
ReadmeName == <<"R", "E", "A", "D", "M", "E", ".", "m", "d">>

V010 == <<"0", ".", "1", ".", "0">>

\* char::is_alphanumeric
is_alphanumeric(c) == c \in Letters \cup Digits

\* faulty variant: the target is never found to exist
path_exists_never(t, path) == FALSE

\* Path::exists
path_exists(t, path) == path \in DOMAIN t

is_dir(t, path) == path \in DOMAIN t /\ t[path].kind = "dir"

\* std::fs::create_dir_all: creates the missing directories of the path; fails,
\* creating nothing, when a component of the path is a file
fs_create_dir_all(t, path) ==
    LET prefixes == {SubSeq(path, 1, k) : k \in 0..Len(path)}
    IN IF \E q \in prefixes : q \in DOMAIN t /\ t[q].kind # "dir"
       THEN [err |-> "IoError", tree |-> t]
       ELSE [err |-> "",
             tree |-> [q \in DOMAIN t \cup prefixes |-> IF q \in DOMAIN t THEN t[q] ELSE DirNode]]

\* std::fs::write: creates the file or replaces its content; fails when the
\* parent is not a directory or the path is a directory
fs_write(t, path, content) ==
    IF ~is_dir(t, SubSeq(path, 1, Len(path) - 1)) \/ is_dir(t, path)
    THEN [err |-> "IoError", tree |-> t]
    ELSE [err |-> "", tree |-> put(t, path, FileNode(content))]

\* #[derive(Default)] on BuildConfig: every u8 field is 0
BuildConfig_default == [opt_level |-> 0, address_size |-> 0]

Manifest_new(name) ==
    [package |-> [name |-> name, version |-> V010, description |-> None, license |-> None,
                  edition |-> "2024"],
     dependencies |-> EmptyMap,
     dev_dependencies |-> EmptyMap,
     build |-> BuildConfig_default]

\* the lines of a table, in the order the HashMap is iterated
table_lines(map, order) == [i \in 1..Len(order) |-> <<order[i], map[order[i]]>>]

\* Manifest::save: toml::to_string_pretty(self) written to the file
Manifest_save(m, order, dev_order) ==
    [kind |-> "toml", name |-> m.package.name, version |-> m.package.version,
     description |-> m.package.description, license |-> m.package.license,
     edition |-> m.package.edition,
     opt_level |-> m.build.opt_level, address_size |-> m.build.address_size,
     dependencies |-> table_lines(m.dependencies, order),
     dev_dependencies |-> table_lines(m.dev_dependencies, dev_order)]

\* Manifest::new(name) as Manifest::save writes it
new_manifest_file(name) == Manifest_save(Manifest_new(name), <<>>, <<>>)

\* package::create_package: the directories, then Quantum.toml, src/main.qm,
\* .gitignore and README.md, stopping at the first operation that fails
create_package(name, root, t) ==
    LET d1 == fs_create_dir_all(t, root)
        d2 == fs_create_dir_all(d1.tree, Append(root, SrcName))
        w1 == fs_write(d2.tree, Append(root, QuantumTomlName), new_manifest_file(name))
        w2 == fs_write(w1.tree, root \o <<SrcName, MainQmName>>, [kind |-> "qm", module |-> name])
        w3 == fs_write(w2.tree, Append(root, GitignoreName), [kind |-> "gitignore"])
        w4 == fs_write(w3.tree, Append(root, ReadmeName), [kind |-> "readme", title |-> name])
    IN IF d1.err # "" THEN d1
       ELSE IF d2.err # "" THEN d2
       ELSE IF w1.err # "" THEN w1
       ELSE IF w2.err # "" THEN w2
       ELSE IF w3.err # "" THEN w3
       ELSE w4

\* commands::new::execute(name, here)
new_outcome(name, here, t) ==
    IF name = <<>>
    THEN [err |-> "EmptyName", tree |-> t]
    ELSE IF ~(\A i \in 1..Len(name) : is_alphanumeric(name[i]) \/ name[i] = "_" \/ name[i] = "-")
    THEN [err |-> "BadName", tree |-> t]
    ELSE LET package_path == IF here THEN <<>> ELSE <<name>>
         IN IF path_exists(t, package_path) /\ ~here
            THEN [err |-> "Exists", tree |-> t]
            ELSE create_package(name, package_path, t)

\* the names given on the command line
NewNames ==
    {<<>>, <<"a">>, <<"b">>, <<"a", "_", "1">>, <<"a", "-", "b">>,
     <<"a", "/", "b">>, <<"a", ".", "b">>, <<"a", " ", "b">>}

new_execute ==
    /\ calls < MaxCalls
    /\ calls' = calls + 1
    /\ \E name \in NewNames, here \in BOOLEAN :
          LET out == new_outcome(name, here, tree)
          IN /\ tree' = out.tree
             /\ args' = [name |-> name, here |-> here, err |-> out.err]
    /\ UNCHANGED <<world, cache, lockfile, pc, to_resolve, resolved, error, io, fetchLog, iter,
                   prevResult, procs>>

-----------------------------------------------------------------------------
(* The publish command. The package is the current directory: topToml is its   *)
(* Quantum.toml and tree holds its other files.                                *)

BuildName == <<"b", "u", "i", "l", "d">>
ReleaseName == <<"r", "e", "l", "e", "a", "s", "e">>
QmExt == <<"q", "m">>
QbcExt == <<"q", "b", "c">>

\* the position of the dot that starts the extension of a file name, or 0: a
\* dot at the start of the name does not start an extension
last_dot(name) ==
    IF \E i \in 2..Len(name) : name[i] = "."
    THEN CHOOSE i \in 2..Len(name) :
            name[i] = "." /\ \A j \in (i + 1)..Len(name) : name[j] # "."
    ELSE 0

\* Path::extension
extension(name) ==
    IF last_dot(name) = 0 THEN None ELSE SubSeq(name, last_dot(name) + 1, Len(name))

\* Path::file_stem
file_stem(name) ==
    IF last_dot(name) = 0 THEN name ELSE SubSeq(name, 1, last_dot(name) - 1)

\* Path::with_extension
with_extension(name, ext) == file_stem(name) \o <<".">> \o ext

\* Package::source_files: the .qm files below src, at any depth
source_files(t) ==
    IF ~path_exists(t, <<SrcName>>)
    THEN [err |-> "NoSrcDir", files |-> {}]
    ELSE [err |-> "",
          files |-> {q \in DOMAIN t : /\ Len(q) >= 2
                                      /\ q[1] = SrcName
                                      /\ t[q].kind = "file"
                                      /\ extension(q[Len(q)]) = QmExt}]

\* faulty variant: nothing is required of the package
validate_package_nothing(m, t) == ""

\* publish::validate_package: "" when the package may be published
validate_package(m, t) ==
    IF ~is_some(m.package.description) THEN "NoDescription"
    ELSE IF ~is_some(m.package.license) THEN "NoLicense"
    ELSE LET sf == source_files(t)
         IN IF sf.err # "" THEN sf.err
            ELSE IF sf.files = {} THEN "NoSourceFiles"
            ELSE ""

InPublish(step) == args # NoArgs /\ args.step = step

\* execute returns: Ok(()) when e is "", else Err
publish_return(e) == args' = [args EXCEPT !.step = "returned", !.err = e]

\* publish::execute up to the prompt: load the package, validate it
publish_start ==
    /\ pc \in {"idle", "done", "failed"}
    /\ IF args = NoArgs THEN TRUE ELSE args.step = "returned"
    /\ calls < MaxCalls
    /\ calls' = calls + 1
    /\ pc' = "idle"
    /\ \E skip_confirm \in BOOLEAN :
          LET cmd == [skip_confirm |-> skip_confirm, step |-> "returned", err |-> "",
                      answer |-> "none", package |-> NoInfo, tree |-> tree, io |-> io]
          IN IF ~Manifest_load_ok(topToml)
             THEN args' = [cmd EXCEPT !.err = "LoadFailed"]
             ELSE LET package == Manifest_load(topToml)
                      e == validate_package(package, tree)
                  IN IF e # ""
                     THEN args' = [cmd EXCEPT !.err = e, !.package = package]
                     ELSE args' = [cmd EXCEPT !.package = package,
                                              !.step = IF skip_confirm THEN "build"
                                                       ELSE "confirm"]
    /\ UNCHANGED <<world, cache, lockfile, to_resolve, resolved, error, io, fetchLog, iter,
                   prevResult, procs, tree>>

\* Confirm::interact: the user's answer, or the prompt fails
publish_confirm ==
    /\ InPublish("confirm")
    /\ \E answer \in {"yes", "no", "error"} :
          CASE answer = "yes" -> args' = [args EXCEPT !.step = "build", !.answer = "yes"]
            [] answer = "no" -> args' = [args EXCEPT !.step = "returned", !.answer = "no"]
            [] answer = "error" -> publish_return("PromptError")
    /\ UNCHANGED <<world, cache, lockfile, pc, to_resolve, resolved, error, io, fetchLog, iter,
                   prevResult, procs, tree, calls>>

\* build::execute(true, None) is called and runs up to the first worklist entry
publish_build ==
    /\ InPublish("build")
    /\ pc = "idle"
    /\ build_start

\* the .qbc files of the source files in files, written in this order into dir,
\* up to the first write that fails
RECURSIVE write_outputs(_, _, _)
write_outputs(t, dir, files) ==
    IF files = <<>>
    THEN [err |-> "", tree |-> t]
    ELSE LET name == Head(files)[Len(Head(files))]
             w == fs_write(t, Append(dir, with_extension(name, QbcExt)),
                           [kind |-> "qbc", source |-> Head(files)])
         IN IF w.err # "" THEN w ELSE write_outputs(w.tree, dir, Tail(files))

\* build::execute after the dependency step: the source files are compiled
\* one by one in the order read_dir lists them and each bytecode is written
\* before the next file is compiled; accepted is the number of files the
\* compiler accepts before it rejects one
compile_all(t, order, accepted) ==
    LET build_dir == <<BuildName, ReleaseName>>
        d == fs_create_dir_all(t, build_dir)
        w == write_outputs(d.tree, build_dir, SubSeq(order, 1, accepted))
    IN IF d.err # "" THEN d
       ELSE IF w.err # "" THEN w
       ELSE IF accepted < Len(order) THEN [err |-> "CompileFailed", tree |-> w.tree]
       ELSE w

\* the rest of build::execute, and what publish does with its result
publish_compile ==
    /\ InPublish("build")
    /\ pc \in {"done", "failed"}
    /\ IF pc = "failed"
       THEN publish_return(error) /\ tree' = tree
       ELSE LET sf == source_files(tree)
            IN IF sf.err # ""
               THEN publish_return(sf.err) /\ tree' = tree
               ELSE IF sf.files = {}
               THEN publish_return("NoSourceFiles") /\ tree' = tree
               ELSE \E order \in Orderings(sf.files), accepted \in 0..Cardinality(sf.files) :
                       LET out == compile_all(tree, order, accepted)
                       IN /\ tree' = out.tree
                          /\ IF out.err # ""
                             THEN publish_return(out.err)
                             ELSE args' = [args EXCEPT !.step = "upload"]
    /\ UNCHANGED <<world, cache, lockfile, pc, to_resolve, resolved, error, io, fetchLog, iter,
                   prevResult, procs, calls>>

\* create_package_archive, then Registry::publish: the request is sent and
\* the registry answers with success or with an error status, or the
\* request fails
publish_upload ==
    /\ InPublish("upload")
    /\ io' = Append(io, <<"publish", args.package.package.name, args.package.package.version>>)
    /\ \E response \in {"", "RegistryError", "SendFailed"} : publish_return(response)
    /\ UNCHANGED <<world, cache, lockfile, pc, to_resolve, resolved, error, fetchLog, iter,
                   prevResult, procs, tree, calls>>

-----------------------------------------------------------------------------
(* The environment: what the registry, the remote repositories and the local   *)
(* directories hold.                                                            *)

A == <<"a">>
B == <<"b">>
C == <<"c">>
V1 == <<"1", ".", "0", ".", "0">>
V2 == <<"2", ".", "0", ".", "0">>
PathA == <<"/", "a">>
PathC == <<"/", "c">>
PathX == <<"/", "x">>
GitA == <<"g", ":", "a">>
BranchM == <<"m", "/", "x">>
TagT == <<"t">>
RevR == <<"r">>
RevZ == <<"z">>

D == <<"d">>

\* a manifest with a [dev-dependencies] table
WithDev(file, devs) == [file EXCEPT !.dev_dependencies = devs]

Archive(file, wf) == [toml |-> file, wellformed |-> wf]

\* a@1.0.0 depends on b@1.0.0; a@2.0.0 is a malformed archive; the manifest of
\* b@2.0.0 has the version "2.0", which validate rejects
FetchRegistry ==
    (<<A, V1>> :> Archive(Toml(A, V1, <<<<B, Simple(V1)>>>>), TRUE))
    @@ (<<B, V1>> :> Archive(WithDev(Toml(B, V1, <<>>), <<<<D, Simple(V1)>>>>), TRUE))
    @@ (<<A, V2>> :> Archive(Toml(A, V2, <<>>), FALSE))
    @@ (<<B, V2>> :> Archive(Toml(B, <<"2", ".", "0">>, <<>>), TRUE))

\* /a is a package without dependencies, /c depends on itself by path,
\* /x does not exist
FetchPaths ==
    (PathA :> Dir(WithDev(Toml(A, V1, <<>>), <<<<D, Simple(V1)>>>>)))
    @@ (PathC :> Dir(Toml(C, V1, <<<<C, Detailed(None, None, None, None, None, PathC)>>>>)))

NoSource == Detailed(None, None, None, None, None, None)

\* g:a has the default branch, the branch m and the revision r, whose manifest
\* declares b without version, git or path
FetchGit ==
    GitA :> ((HEAD :> WithDev(Toml(A, V1, <<>>), <<<<D, Simple(V1)>>>>))
             @@ (BranchM :> Toml(A, V2, <<>>))
             @@ (RevR :> Toml(A, V1, <<<<B, NoSource>>>>)))

\* every combination of version, git and path, and every way to name a git ref
DeclForms ==
    {Simple(V1), Simple(V2)}
    \cup {Detailed(v, g, None, None, None, p) :
            v \in {None, V1}, g \in {None, GitA}, p \in {None, PathA}}
    \cup {Detailed(None, GitA, b, t, r, None) :
            b \in {None, BranchM}, t \in {None, TagT}, r \in {None, RevR}}
    \cup {Detailed(None, GitA, None, None, RevZ, None),
          Detailed(None, None, None, None, None, PathC),
          Detailed(None, None, None, None, None, PathX)}

Top == <<"t">>

FetchTops ==
    {<<>>}
    \cup {<<<<n, d>>>> : n \in {A, B}, d \in DeclForms}
    \cup {<<<<A, d>>, <<B, Simple(V1)>>>> : d \in DeclForms}
    \cup {<<<<B, Simple(V1)>>, <<A, d>>>> : d \in DeclForms}

InitLocal ==
    /\ cache = EmptyMap
    /\ lockfile = NoLock
    /\ pc = "idle"
    /\ to_resolve = <<>>
    /\ resolved = EmptyMap
    /\ error = ""
    /\ io = <<>>
    /\ fetchLog = <<>>
    /\ iter = 0
    /\ calls = 0
    /\ prevResult = NoInfo
    /\ procs = EmptyMap
    /\ tree = EmptyTree
    /\ args = NoArgs

\* the development-only table of the package being built: d, and a in another
\* version than any production table declares
TopDev == <<<<D, Simple(V1)>>, <<A, Simple(<<"3", ".", "0", ".", "0">>)>>>>

Init ==
    /\ \E t \in FetchTops : topToml = WithDev(Toml(Top, V1, t), TopDev)
    /\ registry = FetchRegistry
    /\ gitRemote = FetchGit
    /\ fsPaths = FetchPaths
    /\ InitLocal

\* the world changes between two builds: a package is published again under the
\* same name and version, the refs of a repository move, or a local directory
\* loses its Quantum.toml
Republished == <<"r">>
republish(file) == [file EXCEPT !.description = Republished]

MaxWorldChanges == 1

WorldChanges ==
    Cardinality({k \in DOMAIN registry : registry[k].toml.description # None})
    + Cardinality({u \in DOMAIN gitRemote :
                     \E r \in DOMAIN gitRemote[u] : gitRemote[u][r].description # None})
    + Cardinality({p \in DOMAIN fsPaths : fsPaths[p].toml = NoFile})

world_change ==
    /\ pc \in {"done", "failed"}
    /\ WorldChanges < MaxWorldChanges
    /\ \/ \E k \in DOMAIN registry :
            /\ registry[k].toml.description = None
            /\ registry' = [registry EXCEPT ![k].toml = republish(@)]
            /\ UNCHANGED <<gitRemote, fsPaths>>
       \/ \E u \in DOMAIN gitRemote :
            /\ \A r \in DOMAIN gitRemote[u] : gitRemote[u][r].description = None
            /\ gitRemote' = [gitRemote EXCEPT ![u] = [r \in DOMAIN @ |-> republish(@[r])]]
            /\ UNCHANGED <<registry, fsPaths>>
       \/ \E p \in DOMAIN fsPaths :
            /\ fsPaths[p].toml # NoFile
            /\ fsPaths' = [fsPaths EXCEPT ![p] = Dir(NoFile)]
            /\ UNCHANGED <<registry, gitRemote>>
    /\ UNCHANGED <<topToml, cache, lockfile, pc, to_resolve, resolved, error,
                   io, fetchLog, iter, calls, prevResult, procs, tree, args>>

Next == build_start \/ resolve_step \/ resolve_return \/ world_change

Spec == Init /\ [][Next]_vars

-----------------------------------------------------------------------------
(* Builds of a package whose manifest is edited between them *)

\* the author removes one of the dependencies from Quantum.toml
edit_manifest ==
    /\ pc \in {"done", "failed"}
    /\ topToml.dependencies # <<>>
    /\ \E i \in 1..Len(topToml.dependencies) :
          topToml' = [topToml EXCEPT !.dependencies =
                         SubSeq(@, 1, i - 1) \o SubSeq(@, i + 1, Len(@))]
    /\ UNCHANGED <<registry, gitRemote, fsPaths, cache, lockfile, pc, to_resolve, resolved,
                   error, io, fetchLog, iter, calls, prevResult, procs, tree, args>>

NextLock == build_start \/ resolve_step \/ resolve_return \/ edit_manifest

SpecLock == Init /\ [][NextLock]_vars

-----------------------------------------------------------------------------
(* Calls of resolve on a cache that earlier commands may have filled *)

WarmCache ==
    registry_cache_key(A, V1) :> Dir(FetchRegistry[<<A, V1>>].toml)

InitResolve ==
    /\ \E t \in FetchTops : topToml = WithDev(Toml(Top, V1, t), TopDev)
    /\ registry = FetchRegistry
    /\ gitRemote = FetchGit
    /\ fsPaths = FetchPaths
    /\ lockfile = NoLock
    /\ pc = "idle"
    /\ to_resolve = <<>>
    /\ resolved = EmptyMap
    /\ error = ""
    /\ io = <<>>
    /\ fetchLog = <<>>
    /\ iter = 0
    /\ calls = 0
    /\ prevResult = NoInfo
    /\ procs = EmptyMap
    /\ tree = EmptyTree
    /\ args = NoArgs
    /\ cache \in {EmptyMap, WarmCache}

NextResolve == resolve_call \/ resolve_step \/ resolve_ok

SpecResolve == InitResolve /\ [][NextResolve]_vars

-----------------------------------------------------------------------------
(* Two resolver invocations, in two processes, resolve the same registry       *)
(* dependency on the same cache root. Each takes the steps of                   *)
(* resolve_registry_dependency one file-system operation at a time; nothing     *)
(* orders the steps of one against the steps of the other.                      *)

Procs == {1, 2}

at(p, where) == procs[p].pc = where
identity(p) == registry_cache_key(procs[p].name, procs[p].version)
goto(p, where) == [procs EXCEPT ![p].pc = where]
finish(p, e) == [procs EXCEPT ![p].pc = "done", ![p].err = e]

\* whether another invocation has created the directory and not finished
\* populating it
populating(p) == \E q \in Procs \ {p} : procs[q].pc \in {"unpack", "write"}

RaceFrame ==
    UNCHANGED <<topToml, registry, gitRemote, fsPaths, lockfile, pc, to_resolve, resolved,
                error, io, fetchLog, iter, calls, prevResult, tree, args>>

\* if cache_path.exists() { return self.load_cached_dependency(&cache_path) }
check_cache ==
    \E p \in Procs :
        /\ at(p, "check")
        /\ procs' = IF exists(cache, identity(p))
                    THEN [procs EXCEPT ![p].pc = "load", ![p].hit = TRUE]
                    ELSE goto(p, "download")
        /\ UNCHANGED cache
        /\ RaceFrame

\* self.registry.download(name, version).await?
download_archive ==
    \E p \in Procs :
        /\ at(p, "download")
        /\ \E d \in download(registry, procs[p].name, procs[p].version) :
              procs' = IF d.err # "" THEN finish(p, d.err)
                       ELSE [procs EXCEPT ![p].pc = "mkdir", ![p].archive = d.archive]
        /\ UNCHANGED cache
        /\ RaceFrame

\* extract_archive: std::fs::create_dir_all(dest)?
create_dir_all ==
    \E p \in Procs :
        /\ at(p, "mkdir")
        /\ cache' = IF exists(cache, identity(p)) THEN cache
                    ELSE put(cache, identity(p), Dir(NoFile))
        /\ procs' = goto(p, "unpack")
        /\ RaceFrame

\* extract_archive: tar.unpack(dest)? creates Quantum.toml (truncating one that
\* is there); a malformed archive fails, with the manifest written or not
unpack_create ==
    \E p \in Procs :
        /\ at(p, "unpack")
        /\ IF procs[p].archive.wellformed
           THEN /\ cache' = put(cache, identity(p), Dir(Garbage))
                /\ procs' = goto(p, "write")
           ELSE /\ cache' \in {cache, put(cache, identity(p), Dir(procs[p].archive.toml))}
                /\ procs' = finish(p, "ExtractError")
        /\ RaceFrame

\* faulty variant: the content of Quantum.toml is never written
unpack_write_nothing ==
    \E p \in Procs :
        /\ at(p, "write")
        /\ procs' = goto(p, "load")
        /\ UNCHANGED cache
        /\ RaceFrame

\* tar.unpack(dest)? writes the content of Quantum.toml
unpack_write ==
    \E p \in Procs :
        /\ at(p, "write")
        /\ cache' = put(cache, identity(p), Dir(procs[p].archive.toml))
        /\ procs' = goto(p, "load")
        /\ RaceFrame

\* load_cached_dependency: Manifest::load of the directory's Quantum.toml
load_manifest ==
    \E p \in Procs :
        /\ at(p, "load")
        /\ LET file == cache[identity(p)].toml
           IN procs' = [procs EXCEPT ![p].pc = "done",
                                     ![p].err = IF Manifest_load_ok(file) THEN "" ELSE "ParseError",
                                     ![p].seen = file,
                                     ![p].raced = populating(p)]
        /\ UNCHANGED cache
        /\ RaceFrame

\* both invocations are about to resolve the same package, not in the cache
InitRace ==
    /\ topToml = Toml(Top, V1, <<>>)
    /\ registry = FetchRegistry
    /\ gitRemote = FetchGit
    /\ fsPaths = FetchPaths
    /\ cache = EmptyMap
    /\ lockfile = NoLock
    /\ pc = "idle"
    /\ to_resolve = <<>>
    /\ resolved = EmptyMap
    /\ error = ""
    /\ io = <<>>
    /\ fetchLog = <<>>
    /\ iter = 0
    /\ calls = 0
    /\ prevResult = NoInfo
    /\ tree = EmptyTree
    /\ args = NoArgs
    /\ \E k \in DOMAIN FetchRegistry :
          procs = [p \in Procs |->
                     [pc |-> "check", name |-> k[1], version |-> k[2], hit |-> FALSE,
                      archive |-> NoInfo, err |-> "", seen |-> NoInfo, raced |-> FALSE]]

NextRace ==
    \/ check_cache
    \/ download_archive
    \/ create_dir_all
    \/ unpack_create
    \/ unpack_write
    \/ load_manifest

SpecRace == InitRace /\ [][NextRace]_vars

-----------------------------------------------------------------------------
(* Dependency graphs: registry packages over the names a, b, c, where c is     *)
(* published in two versions, and chains as long as the depth limit.           *)

GraphPkgs == {<<A, V1>>, <<B, V1>>, <<C, V1>>, <<C, V2>>}

GraphEntries == {<<k[1], Simple(k[2])>> : k \in GraphPkgs}

GraphTables == {<<>>} \cup {<<e>> : e \in GraphEntries}

GraphTops ==
    GraphTables
    \cup {<<p[1], p[2]>> : p \in {q \in GraphEntries \X GraphEntries : q[1][1] # q[2][1]}}

\* the packages a dependency table declares
Declared(table) == {<<table[i][1], table[i][2].version>> : i \in 1..Len(table)}

\* the packages reachable from `from` along the tables of `reg`
RECURSIVE Closure(_, _)
Closure(from, reg) ==
    LET more == from \cup UNION {Declared(reg[k].toml.dependencies) : k \in from \cap DOMAIN reg}
    IN IF more = from THEN from ELSE Closure(more, reg)

GraphRegistry(tabs) == [k \in GraphPkgs |-> Archive(Toml(k[1], k[2], tabs[k]), TRUE)]

\* packages no declaration leads to have no dependencies: they play no part
GraphWorlds ==
    {w \in [top : GraphTops, tabs : [GraphPkgs -> GraphTables]] :
        \A k \in GraphPkgs \ Closure(Declared(w.top), GraphRegistry(w.tabs)) :
            w.tabs[k] = <<>>}

DigitChars == <<"0", "1", "2", "3", "4", "5", "6", "7", "8", "9">>

ChainName(i) ==
    <<"p", DigitChars[(i \div 100) + 1], DigitChars[((i \div 10) % 10) + 1],
      DigitChars[(i % 10) + 1]>>

\* p000 -> p001 -> ... -> p(len-1), closed: the last one depends on p000
ChainRegistry(len, closed) ==
    [k \in {<<ChainName(i), V1>> : i \in 0..(len - 1)} |->
        LET i == CHOOSE j \in 0..(len - 1) : ChainName(j) = k[1]
        IN Archive(Toml(k[1], V1,
                        IF i < len - 1 THEN <<<<ChainName(i + 1), Simple(V1)>>>>
                        ELSE IF closed THEN <<<<ChainName(0), Simple(V1)>>>>
                        ELSE <<>>), TRUE)]

ChainLengths == {DepthLimit, DepthLimit + 1, DepthLimit + 2}

InitGraph ==
    /\ \/ \E w \in GraphWorlds :
            /\ topToml = Toml(Top, V1, w.top)
            /\ registry = GraphRegistry(w.tabs)
       \/ \E len \in ChainLengths, closed \in BOOLEAN :
            /\ topToml = Toml(Top, V1, <<<<ChainName(0), Simple(V1)>>>>)
            /\ registry = ChainRegistry(len, closed)
    /\ gitRemote = EmptyMap
    /\ fsPaths = EmptyMap
    /\ InitLocal

\* a single call of resolve
resolve_once == calls = 0 /\ resolve_call

NextGraph == resolve_once \/ resolve_step \/ resolve_ok

SpecGraph == InitGraph /\ [][NextGraph]_vars

-----------------------------------------------------------------------------
(* quantum new, run in a directory that is empty, or holds a directory or a   *)
(* file named a, or a file named src, or a package created earlier             *)

OldPackage == create_package(<<"b">>, <<>>, EmptyTree).tree

NewTrees ==
    {EmptyTree,
     fs_create_dir_all(EmptyTree, <<<<"a">>>>).tree,
     fs_write(EmptyTree, <<<<"a">>>>, [kind |-> "other"]).tree,
     fs_write(EmptyTree, <<SrcName>>, [kind |-> "other"]).tree,
     OldPackage}

InitNew ==
    /\ topToml = Toml(Top, V1, <<>>)
    /\ registry = EmptyMap
    /\ gitRemote = EmptyMap
    /\ fsPaths = EmptyMap
    /\ cache = EmptyMap
    /\ lockfile = NoLock
    /\ pc = "idle"
    /\ to_resolve = <<>>
    /\ resolved = EmptyMap
    /\ error = ""
    /\ io = <<>>
    /\ fetchLog = <<>>
    /\ iter = 0
    /\ calls = 0
    /\ prevResult = NoInfo
    /\ procs = EmptyMap
    /\ tree \in NewTrees
    /\ args = NoArgs

NextNew == new_execute

SpecNew == InitNew /\ [][NextNew]_vars

-----------------------------------------------------------------------------
(* Builds whose two dependencies are declared with names, versions, URLs and  *)
(* refs that contain the characters the cache keys are assembled with         *)

GA == <<"g", "_", "a">>
AB == <<"a", "-", "b">>
X == <<"x">>
Y == <<"y">>
One == <<"1">>
B1 == <<"b", "-", "1">>
GitSlashA == <<"g", "/", "a">>
BranchU == <<"m", "_", "x">>

GitDecl(url, branch, tag) == Detailed(None, url, branch, tag, None, None)

KeyDecls ==
    {<<GA, Simple(TagT)>>,
     <<X, GitDecl(GitA, None, TagT)>>,
     <<Y, GitDecl(GitA, None, TagT)>>,
     <<B, GitDecl(GitSlashA, None, TagT)>>,
     <<C, GitDecl(GitA, BranchM, None)>>,
     <<D, GitDecl(GitA, BranchU, None)>>,
     <<AB, Simple(One)>>,
     <<A, Simple(B1)>>}

KeyTops == {<<d1, d2>> : d1, d2 \in KeyDecls} \ {<<d, d>> : d \in KeyDecls}

KeyRegistry ==
    (<<GA, TagT>> :> Archive(Toml(GA, V1, <<>>), TRUE))
    @@ (<<AB, One>> :> Archive(Toml(AB, V1, <<>>), TRUE))
    @@ (<<A, B1>> :> Archive(Toml(A, V2, <<>>), TRUE))

KeyGit ==
    (GitA :> ((HEAD :> Toml(X, V1, <<>>))
              @@ (BranchM :> Toml(C, V1, <<>>))
              @@ (BranchU :> Toml(D, V1, <<>>))))
    @@ (GitSlashA :> (HEAD :> Toml(B, V1, <<>>)))

InitKeys ==
    /\ \E t \in KeyTops : topToml = Toml(Top, V1, t)
    /\ registry = KeyRegistry
    /\ gitRemote = KeyGit
    /\ fsPaths = EmptyMap
    /\ InitLocal

NextKeys == build_start \/ resolve_step \/ resolve_return

SpecKeys == InitKeys /\ [][NextKeys]_vars

-----------------------------------------------------------------------------
(* Publishing: packages with and without a description, a license, source      *)
(* files and a dependency, against a registry that has the dependency or not   *)

Desc == <<"d">>
Lic == <<"m">>
LibQmName == <<"l", "i", "b", ".", "q", "m">>

Described(file, d, l) == [file EXCEPT !.description = d, !.license = l]

PublishTops ==
    {Described(Toml(Top, V1, deps), d, l) :
        deps \in {<<>>, <<<<A, Simple(V1)>>>>}, d \in {None, Desc}, l \in {None, Lic}}
    \cup {new_manifest_file(Top), NoFile}

PublishRegistries == {EmptyMap, <<A, V1>> :> Archive(Toml(A, V1, <<>>), TRUE)}

Qm(name) == [kind |-> "qm", module |-> name]

\* the directory of a package whose Quantum.toml is top
PublishTrees(top) ==
    LET base == IF top.kind = "nofile" THEN EmptyTree
                ELSE fs_write(EmptyTree, <<QuantumTomlName>>, top).tree
        src == fs_create_dir_all(base, <<SrcName>>).tree
        main == fs_write(src, <<SrcName, MainQmName>>, Qm(Top)).tree
    IN {base,
        src,
        fs_write(src, <<SrcName, ReadmeName>>, [kind |-> "readme", title |-> Top]).tree,
        main,
        fs_write(main, <<SrcName, LibQmName>>, Qm(Top)).tree,
        fs_write(main, <<BuildName>>, [kind |-> "other"]).tree}

InitPublish ==
    /\ topToml \in PublishTops
    /\ registry \in PublishRegistries
    /\ gitRemote = EmptyMap
    /\ fsPaths = EmptyMap
    /\ cache = EmptyMap
    /\ lockfile = NoLock
    /\ pc = "idle"
    /\ to_resolve = <<>>
    /\ resolved = EmptyMap
    /\ error = ""
    /\ io = <<>>
    /\ fetchLog = <<>>
    /\ iter = 0
    /\ calls = 0
    /\ prevResult = NoInfo
    /\ procs = EmptyMap
    /\ tree \in PublishTrees(topToml)
    /\ args = NoArgs

NextPublish ==
    \/ publish_start
    \/ publish_confirm
    \/ publish_build
    \/ resolve_step
    \/ resolve_return
    \/ publish_compile
    \/ publish_upload

SpecPublish == InitPublish /\ [][NextPublish]_vars

-----------------------------------------------------------------------------
(* Loading manifests whose package version is any short text, or one of the    *)
(* texts at the limits of the check                                            *)

MaxVersionLen == 6
VersionChars == {"0", "1", ".", "+", "a"}

Texts(chars, len) == UNION {[1..n -> chars] : n \in 0..len}

VersionTexts ==
    Texts(VersionChars, MaxVersionLen)
    \cup {<<"1", ".", "2", ".", "3">>,
          <<"1", ".", "2">>,
          <<"1", ".", "2", ".", "3", ".", "4">>,
          <<"a", "b", "c">>,
          <<"4", "2", "9", "4", "9", "6", "7", "2", "9", "5", ".", "0", ".", "0">>,
          <<"4", "2", "9", "4", "9", "6", "7", "2", "9", "6", ".", "0", ".", "0">>,
          <<"0", ".", "4", "2", "9", "5", "0", "0", "0", "0", "0", "0", ".", "0">>,
          <<"0", ".", "0", ".", "9", "9", "9", "9", "9", "9", "9", "9", "9", "9", "9">>,
          <<"0", "0", "0", "0", "0", "0", "0", "0", "0", "0", "7", ".", "0", ".", "0">>,
          <<"1", ".", "2", ".", "-", "3">>,
          <<"1", ".", "2", ".", "3", " ">>,
          <<" ", "1", ".", "2", ".", "3">>,
          <<"1", ".", "0", ".", "0", "-", "r", "c">>}

InitVersion ==
    /\ \E v \in VersionTexts : topToml = Toml(Top, v, <<>>)
    /\ registry = EmptyMap
    /\ gitRemote = EmptyMap
    /\ fsPaths = EmptyMap
    /\ InitLocal

NextVersion == build_start

SpecVersion == InitVersion /\ [][NextVersion]_vars

-----------------------------------------------------------------------------
(* Properties of the traversal, checked under SpecGraph *)

Running == pc = "resolving"
Finished == pc \in {"done", "failed"}

\* the packages the top-level manifest leads to, and their names
Reachable == Closure(Declared(topToml.dependencies), registry)
ReachableNames == {k[1] : k \in Reachable}
DeclaredBy(k) == IF k \in DOMAIN registry THEN Declared(registry[k].toml.dependencies) ELSE {}
Cyclic == \E k \in Reachable : k \in Closure(DeclaredBy(k), registry)

\* every declaration of a name in the graph names the same package
Consistent == \A k1, k2 \in Reachable : k1[1] = k2[1] => k1 = k2

\* the longest path below a package of an acyclic graph
RECURSIVE DepthBelow(_)
DepthBelow(k) ==
    IF DeclaredBy(k) = {} THEN 0
    ELSE LET below == {DepthBelow(c) : c \in DeclaredBy(k)}
         IN 1 + (CHOOSE d \in below : \A x \in below : x <= d)
GraphDepth ==
    IF Declared(topToml.dependencies) = {} THEN 0
    ELSE LET below == {DepthBelow(c) : c \in Declared(topToml.dependencies)}
         IN CHOOSE d \in below : \A x \in below : x <= d

AllFetchesOk == \A i \in 1..Len(fetchLog) : fetchLog[i].err = ""

\* C1: once a name is in the ResultSet, a later worklist entry with that name
\* never reaches the SourceFetcher (no fetch, no I/O), and while the call runs
\* the record stored for the name stays what it is and stays in the set.
C1_FirstWins ==
    [][Running =>
        /\ (pc' # "failed" =>
              \A n \in DOMAIN resolved : n \in DOMAIN resolved' /\ resolved'[n] = resolved[n])
        /\ (to_resolve # <<>> /\ Head(to_resolve).name \in DOMAIN resolved =>
              /\ fetchLog' = fetchLog
              /\ io' = io
              /\ cache' = cache
              /\ (pc' = "resolving" => to_resolve' = Tail(to_resolve) /\ resolved' = resolved))]_vars

\* a build that kept c@1.0.0 although a resolved manifest declares c@2.0.0
C1_Witness ==
    /\ pc = "done"
    /\ C \in DOMAIN resolved
    /\ resolved[C].version = V1
    /\ \E n \in DOMAIN resolved :
          /\ C \in DOMAIN resolved[n].manifest.dependencies
          /\ resolved[n].manifest.dependencies[C].version = V2

Diamond ==
    /\ topToml.dependencies = <<<<A, Simple(V1)>>, <<B, Simple(V1)>>>>
    /\ registry[<<A, V1>>].toml.dependencies = <<<<C, Simple(V1)>>>>
    /\ registry[<<B, V1>>].toml.dependencies = <<<<C, Simple(V2)>>>>

\* C2: the manifest lists a before b, a declares c@1.0.0 and b declares c@2.0.0:
\* the c retained by a successful resolve is c@1.0.0.
C2_DiamondKeepsFirst ==
    (pc = "done" /\ <<A, V1>> \in DOMAIN registry /\ <<B, V1>> \in DOMAIN registry /\ Diamond)
        => resolved[C].version = V1

\* C3 as stated: no graph with a cycle resolves successfully.
C3_CycleNeverResolves == pc = "done" => ~Cyclic

\* C3 as amended: DepthExceeded is raised only once more than DepthLimit names
\* have been fetched, so a cycle through at most DepthLimit names is cut by the
\* already-resolved check and resolves when its fetches succeed.
C3_DepthGuardOnlyOnLongChains ==
    /\ error = "DepthExceeded" => Len(fetchLog) > DepthLimit /\ AllFetchesOk
    /\ (Finished /\ AllFetchesOk /\ Cardinality(ReachableNames) <= DepthLimit) => pc = "done"

\* a cycle through more than DepthLimit names, stopped by the depth guard
C3_Witness == error = "DepthExceeded" /\ Cyclic


\* every name a worklist entry can carry: the names the manifests declare
TableNames(file) ==
    IF file.kind = "toml"
    THEN {file.dependencies[i][1] : i \in 1..Len(file.dependencies)}
    ELSE {}
WorldNames ==
    TableNames(topToml)
    \cup UNION {TableNames(registry[k].toml) : k \in DOMAIN registry}
    \cup UNION {TableNames(fsPaths[p].toml) : p \in DOMAIN fsPaths}
    \cup UNION {UNION {TableNames(gitRemote[u][r]) : r \in DOMAIN gitRemote[u]} :
                  u \in DOMAIN gitRemote}

Unresolved == Cardinality(WorldNames \ DOMAIN resolved)

\* a running call can take its next step: return, fail on the depth, drop the
\* entry, or fetch it with some outcome
CanStep ==
    \/ to_resolve = <<>>
    \/ LET e == Head(to_resolve)
       IN \/ depth_exceeded(e.depth)
          \/ contains(resolved, e.name)
          \/ resolve_single(e.name, e.dep, cache, registry, fsPaths, gitRemote) # {}

\* C4: a resolve call finishes, given that every fetch returns: a running call
\* is never stuck, and every iteration of the loop either ends the call, or
\* resolves a name that was not resolved (of the finitely many names of the
\* graph), or shortens the worklist without resolving anything; so the
\* worklist is not refilled forever.
C4_Terminates ==
    /\ [](Running => CanStep)
    /\ [][(Running /\ pc' = "resolving") =>
             \/ Unresolved' < Unresolved
             \/ Unresolved' = Unresolved /\ Len(to_resolve') < Len(to_resolve)]_vars

\* a finished call on a graph with a cycle, after the worklist was refilled
C4_Witness == Finished /\ Cyclic /\ iter >= 3

\* C5 as stated: on an acyclic graph within the depth limit whose fetches all
\* succeed, resolve succeeds with one entry for each reachable name.
C5_OneEntryPerReachableName ==
    (Finished /\ AllFetchesOk /\ ~Cyclic /\ GraphDepth <= DepthLimit)
        => pc = "done" /\ DOMAIN resolved = ReachableNames

\* C5 as amended: the same, for graphs in which every declaration of a name
\* names the same package.
C5_OneEntryPerName ==
    (Finished /\ AllFetchesOk /\ ~Cyclic /\ Consistent /\ GraphDepth <= DepthLimit)
        => /\ pc = "done"
           /\ DOMAIN resolved = ReachableNames
           /\ Cardinality(DOMAIN resolved) = Cardinality(ReachableNames)

C5_Witness ==
    /\ pc = "done"
    /\ ~Cyclic
    /\ Consistent
    /\ Cardinality(ReachableNames) = 3
    /\ Cardinality(DOMAIN resolved) = 3

-----------------------------------------------------------------------------
(* Properties of the build command, the fetchers and the cache, checked under  *)
(* Spec                                                                         *)

\* the step is a call of resolve_single
Fetched == Len(fetchLog') = Len(fetchLog) + 1
LastFetch == fetchLog'[Len(fetchLog')]

\* C6: the first error of a resolve call ends it with that error: the step
\* that raises it (a failed fetch, or an entry beyond the depth limit) leaves
\* the command failed with that error, with no worklist, no ResultSet and the
\* lockfile as it was; a failed command processes nothing more; and the
\* lockfile is written only by a resolve call that returned without error,
\* and read back it is the lockfile of the whole ResultSet.
C6_FailFast ==
    [][/\ (Fetched /\ LastFetch.err # "" => pc' = "failed" /\ error' = LastFetch.err)
       /\ (Running /\ to_resolve # <<>> /\ Head(to_resolve).depth > DepthLimit =>
              pc' = "failed" /\ error' = "DepthExceeded")
       /\ (pc # "failed" /\ pc' = "failed" =>
              /\ lockfile' = lockfile
              /\ resolved' = EmptyMap
              /\ to_resolve' = <<>>
              /\ error' # "")
       /\ (pc = "failed" =>
              \/ calls' = calls + 1
              \/ /\ pc' = pc
                 /\ UNCHANGED <<fetchLog, io, cache, lockfile, resolved, to_resolve, error>>)
       /\ (lockfile' # lockfile =>
              /\ pc = "resolving"
              /\ pc' = "done"
              /\ error = ""
              /\ AllFetchesOk
              /\ Lockfile_load(lockfile').ok
              /\ Lockfile_load(lockfile').lock = from_resolved(resolved))]_vars

\* the second build fails after one of its fetches succeeded; the lockfile is
\* still the one the first build wrote
C6_Witness ==
    /\ pc = "failed"
    /\ Len(fetchLog) >= 2
    /\ prevResult # NoInfo
    /\ Lockfile_load(lockfile).ok
    /\ Lockfile_load(lockfile).lock = from_resolved(prevResult.resolved)
    /\ resolved = EmptyMap

CountIn(seq, x) == Cardinality({i \in 1..Len(seq) : seq[i] = x})

\* the same registry dependency, fetched by the previous resolve call and by
\* this one
SameRegistryDep(old, cur) ==
    /\ old.variant = "Registry"
    /\ cur.variant = "Registry"
    /\ old.name = cur.name
    /\ old.dep.version = cur.dep.version

\* C7: when two successive resolve calls succeed and both resolve the same
\* registry dependency (name and version), the second call downloads nothing
\* for it and returns a record equal to the first in name, version and source;
\* when they are the first two calls on the cache, the package was downloaded
\* exactly once in total.
C7_RegistryCacheHit ==
    (pc = "done" /\ prevResult # NoInfo) =>
        \A i \in 1..Len(fetchLog), j \in 1..Len(prevResult.fetchLog) :
            LET cur == fetchLog[i]
                old == prevResult.fetchLog[j]
                dl == <<"download", cur.name, cur.dep.version>>
                now == resolved[cur.name]
                before == prevResult.resolved[cur.name]
            IN SameRegistryDep(old, cur) =>
                  /\ CountIn(cur.io, dl) = 0
                  /\ CountIn(old.io, dl) <= 1
                  /\ (calls = 2 => CountIn(io, dl) = 1)
                  /\ now.name = before.name
                  /\ now.version = before.version
                  /\ now.source = before.source

\* two builds resolved a@1.0.0 and b@1.0.0 from the registry
C7_Witness ==
    /\ pc = "done"
    /\ prevResult # NoInfo
    /\ \A n \in {A, B} :
          \E i \in 1..Len(fetchLog), j \in 1..Len(prevResult.fetchLog) :
             /\ fetchLog[i].name = n
             /\ SameRegistryDep(prevResult.fetchLog[j], fetchLog[i])

\* the cache identity of a Registry or Git fetch
CacheIdentity(f) ==
    IF f.variant = "Registry"
    THEN registry_cache_key(f.name, f.dep.version)
    ELSE git_cache_key(f.dep.git, f.dep)

OnlyLoads(ops) == \A k \in 1..Len(ops) : ops[k][1] = "load"

\* C8: a Registry or Git fetch whose cache identity exists when it starts
\* leaves the cache as it is, and its only I/O is reading the cached manifest:
\* no download, no extraction, no clone, no checkout.
C8_CacheTrusted ==
    [][Fetched =>
          LET f == LastFetch
          IN (f.variant \in {"Registry", "Git"} /\ CacheIdentity(f) \in DOMAIN cache) =>
                /\ cache' = cache
                /\ io' = io \o f.io
                /\ OnlyLoads(f.io)]_vars

\* a build served a registry dependency from the cache, and a git dependency
\* from the cache after the refs of the repository had moved
C8_Witness ==
    /\ pc = "done"
    /\ \E i \in 1..Len(fetchLog) :
          LET f == fetchLog[i]
          IN /\ f.variant = "Registry"
             /\ f.err = ""
             /\ f.io = <<<<"load", <<"cache", CacheIdentity(f)>>>>>>
    /\ \E i \in 1..Len(fetchLog) :
          LET f == fetchLog[i]
          IN /\ f.variant = "Git"
             /\ f.err = ""
             /\ OnlyLoads(f.io)
             /\ \A r \in DOMAIN gitRemote[f.dep.git] :
                   gitRemote[f.dep.git][r].description = Republished
             /\ cache[CacheIdentity(f)].toml.description = None

Invalid(dep) == ~dep.simple /\ dep.version = None /\ dep.git = None /\ dep.path = None

\* the declarations of the manifests a successful resolve call went through
TraversedDecls ==
    {topToml.dependencies[i][2] : i \in 1..Len(topToml.dependencies)}
    \cup UNION {{resolved[n].manifest.dependencies[m] :
                    m \in DOMAIN resolved[n].manifest.dependencies} : n \in DOMAIN resolved}

\* C9 as stated: a resolve call whose traversal includes a declaration without
\* version, git and path fails with SpecError: no call that succeeds went
\* through such a declaration.
C9_InvalidAlwaysFails ==
    (pc = "done" /\ fetchLog # <<>>) => \A d \in TraversedDecls : ~Invalid(d)

\* C9 as amended: when the entry taken from the worklist is within the depth
\* limit, its name is not in the ResultSet and its declaration has none of
\* version, git and path, the call fails with SpecError and that step performs
\* no I/O and leaves the cache as it is. (An entry whose name is already in
\* the ResultSet is dropped whatever its declaration.)
C9_InvalidFetchFails ==
    [][(/\ Running
        /\ to_resolve # <<>>
        /\ Head(to_resolve).depth <= DepthLimit
        /\ Head(to_resolve).name \notin DOMAIN resolved
        /\ Invalid(Head(to_resolve).dep)) =>
          /\ pc' = "failed"
          /\ error' = "SpecError"
          /\ io' = io
          /\ cache' = cache
          /\ Fetched
          /\ LastFetch.io = <<>>]_vars

\* a dependency fetched from git declared b without version, git and path
C9_Witness ==
    /\ error = "SpecError"
    /\ Len(fetchLog) = 2
    /\ fetchLog[1].variant = "Git"
    /\ Invalid(fetchLog[2].dep)

ExpectedVariant(dep) ==
    IF dep.simple THEN "Registry"
    ELSE IF dep.path # None THEN "Path"
    ELSE IF dep.git # None THEN "Git"
    ELSE IF dep.version # None THEN "Registry"
    ELSE "Invalid"

VariantOps(v) ==
    CASE v = "Registry" -> {"download", "extract", "load"}
      [] v = "Path" -> {"load"}
      [] v = "Git" -> {"clone", "checkout", "load"}
      [] v = "Invalid" -> {}

\* C10: every fetch runs exactly the variant its declaration selects (a bare
\* version: Registry; else path: Path; else git: Git; else version: Registry;
\* else rejected as invalid), and only that variant's operations are performed.
C10_VariantPrecedence ==
    \A i \in 1..Len(fetchLog) :
        LET f == fetchLog[i]
        IN /\ f.variant = ExpectedVariant(f.dep)
           /\ \A k \in 1..Len(f.io) : f.io[k][1] \in VariantOps(f.variant)
           /\ (f.variant = "Path" => \A k \in 1..Len(f.io) : f.io[k][2][1] = "fs")
           /\ (f.variant \in {"Registry", "Git"} =>
                 \A k \in 1..Len(f.io) : f.io[k][1] = "load" => f.io[k][2][1] = "cache")
           /\ (f.variant = "Invalid" <=> f.err = "SpecError")

\* a declaration with version, git and path all set was fetched as a path
C10_Witness ==
    \E i \in 1..Len(fetchLog) :
        LET f == fetchLog[i]
        IN /\ ~f.dep.simple
           /\ f.dep.version # None
           /\ f.dep.git # None
           /\ f.dep.path # None
           /\ f.variant = "Path"
           /\ f.err = ""
           /\ f.io = <<<<"load", <<"fs", f.dep.path>>>>>>

SourceString(variant) ==
    CASE variant = "Registry" -> "registry"
      [] variant = "Path" -> "path"
      [] variant = "Git" -> "git"

\* C11: after a successful build every record of the ResultSet has the source
\* kind of the variant its declaration was fetched by, on a cache miss and on
\* a cache hit, and its lockfile entry carries the matching string.
C11_SourceKindIsOrigin ==
    pc = "done" =>
        \A i \in 1..Len(fetchLog) :
            LET f == fetchLog[i]
            IN /\ resolved[f.name].source = f.variant
               /\ Lockfile_load(lockfile).lock.dependencies[f.name].source
                     = SourceString(f.variant)

\* C12: the name of every record is the package name of the manifest that was
\* loaded for it, whatever key it was declared under.
C12_NameFromManifest ==
    \A n \in DOMAIN resolved : resolved[n].name = resolved[n].manifest.package.name

-----------------------------------------------------------------------------
(* Properties of the lockfile, checked under SpecLock *)

Restrict(f, S) == [x \in S |-> f[x]]

\* C13: for every ResultSet (every part of the one being built, the empty one
\* included) written in any order of its map, reading the text back succeeds
\* and gives as many entries as records, under the same keys, with the name,
\* version and source of each record, the schema version and the unset
\* optional fields of the lockfile that was written.
C13_LockfileRoundTrip ==
    \A S \in SUBSET DOMAIN resolved :
        LET set == Restrict(resolved, S)
            lock == from_resolved(set)
        IN \A order \in Orderings(S) :
              LET back == Lockfile_load(File(save(lock, order)))
              IN /\ back.ok
                 /\ DOMAIN back.lock.dependencies = S
                 /\ Cardinality(DOMAIN back.lock.dependencies) = Cardinality(S)
                 /\ \A n \in S :
                       /\ back.lock.dependencies[n].name = set[n].name
                       /\ back.lock.dependencies[n].version = set[n].version
                       /\ back.lock.dependencies[n].source = source_str(set[n].source)
                       /\ back.lock.dependencies[n].source_url = lock.dependencies[n].source_url
                       /\ back.lock.dependencies[n].checksum = lock.dependencies[n].checksum
                 /\ back.lock.version = lock.version
                 /\ back.lock = lock

\* a lockfile on disk with a path entry and a registry entry
C13_Witness ==
    /\ pc = "done"
    /\ Cardinality(DOMAIN resolved) = 2
    /\ {resolved[n].source : n \in DOMAIN resolved} = {"Path", "Registry"}
    /\ Lockfile_load(lockfile).ok
    /\ DOMAIN Lockfile_load(lockfile).lock.dependencies = DOMAIN resolved

\* C14: the step that saves the lockfile after a successful resolve leaves on
\* disk exactly the entries of the fresh ResultSet: the same keys, each with
\* the name and version of its record, and no entry of the lockfile that was
\* there before unless its name was resolved in this run.
C14_WholesaleSnapshot ==
    [][(pc = "resolving" /\ pc' = "done") =>
          LET old == Lockfile_load(lockfile)
              new == Lockfile_load(lockfile')
          IN /\ new.ok
             /\ DOMAIN new.lock.dependencies = DOMAIN resolved
             /\ \A n \in DOMAIN resolved :
                   /\ new.lock.dependencies[n].name = resolved[n].name
                   /\ new.lock.dependencies[n].version = resolved[n].version
             /\ (old.ok =>
                   \A n \in DOMAIN old.lock.dependencies \ DOMAIN resolved :
                       n \notin DOMAIN new.lock.dependencies)]_vars

\* the second build resolved less than the first: an entry of the first
\* lockfile is gone
C14_Witness ==
    /\ pc = "done"
    /\ prevResult # NoInfo
    /\ fetchLog # <<>>
    /\ DOMAIN prevResult.resolved \ DOMAIN resolved # {}
    /\ DOMAIN Lockfile_load(lockfile).lock.dependencies = DOMAIN resolved

\* C15: from_resolved gives one entry per entry of the ResultSet, under the
\* same keys, with the name and version of the record, the schema version 1,
\* and source_url and checksum unset, whatever the variant.
C15_OneEntryPerRecord ==
    \A S \in SUBSET DOMAIN resolved :
        LET set == Restrict(resolved, S)
            lock == from_resolved(set)
        IN /\ lock.version = 1
           /\ DOMAIN lock.dependencies = S
           /\ Cardinality(DOMAIN lock.dependencies) = Cardinality(DOMAIN set)
           /\ \A n \in S :
                 /\ lock.dependencies[n].name = set[n].name
                 /\ lock.dependencies[n].version = set[n].version
                 /\ lock.dependencies[n].source_url = None
                 /\ lock.dependencies[n].checksum = None

\* a ResultSet with a record fetched from git and one from the registry
C15_Witness ==
    /\ pc = "done"
    /\ Cardinality(DOMAIN resolved) = 2
    /\ {fetchLog[i].variant : i \in 1..Len(fetchLog)} = {"Git", "Registry"}
    /\ Cardinality(DOMAIN from_resolved(resolved).dependencies) = 2

-----------------------------------------------------------------------------
(* Properties of the git and path variants and of the scope of the             *)
(* traversal, checked under Spec; of an empty manifest, under SpecResolve      *)

Sanitized(s, unsafe) == [i \in DOMAIN s |-> IF s[i] \in unsafe THEN "_" ELSE s[i]]

ExpectedRef(dep) ==
    IF dep.branch # None THEN dep.branch
    ELSE IF dep.tag # None THEN dep.tag
    ELSE IF dep.rev # None THEN dep.rev
    ELSE <<"H", "E", "A", "D">>

ExpectedGitIdentity(dep) ==
    Sanitized(dep.git, {"/", ":"}) \o <<"-">> \o Sanitized(ExpectedRef(dep), {"/"})

\* what the clone leaves in the directory: the declared rev when one is
\* declared, else the declared branch, else the default branch
ClonedRef(dep) ==
    IF dep.rev # None THEN dep.rev
    ELSE IF dep.branch # None THEN dep.branch
    ELSE <<"H", "E", "A", "D">>

C17_PathVariant ==
    [][Fetched /\ LastFetch.variant = "Path" =>
          LET f == LastFetch
              path == f.dep.path
          IN /\ cache' = cache
             /\ io' = io \o f.io
             /\ IF path \notin DOMAIN fsPaths
                THEN f.err = "NotFound" /\ f.io = <<>>
                ELSE /\ f.io = <<<<"load", <<"fs", path>>>>>>
                     /\ f.err # "NotFound"
                     /\ (f.err = "" <=> Manifest_load_ok(fsPaths[path].toml))
                     /\ (f.err = "" =>
                           /\ resolved'[f.name].path = <<"fs", path>>
                           /\ resolved'[f.name].source = "Path"
                           /\ resolved'[f.name].manifest = Manifest_load(fsPaths[path].toml))]_vars

\* a path dependency resolved after the cache was filled, and a path that
\* does not exist
C17_Witness ==
    /\ cache # EmptyMap
    /\ \E i \in 1..Len(fetchLog) :
          /\ fetchLog[i].variant = "Path"
          /\ fetchLog[i].err = ""
          /\ fetchLog[i].name \in DOMAIN resolved
          /\ resolved[fetchLog[i].name].path = <<"fs", PathA>>
          /\ \A k \in DOMAIN cache : cache[k] # fsPaths[PathA]

\* the manifests the fetchers can read, as they are before anything changes
\* (publishing a package again or losing a file adds no declaration)
WorldFiles ==
    {topToml}
    \cup {FetchRegistry[k].toml : k \in DOMAIN FetchRegistry}
    \cup {FetchPaths[p].toml : p \in DOMAIN FetchPaths}
    \cup UNION {{FetchGit[u][r] : r \in DOMAIN FetchGit[u]} : u \in DOMAIN FetchGit}

TableOf(file, field) ==
    IF file.kind # "toml" THEN {}
    ELSE IF field = "dev" THEN {file.dev_dependencies[i] : i \in 1..Len(file.dev_dependencies)}
    ELSE {file.dependencies[i] : i \in 1..Len(file.dependencies)}

ProdDecls == UNION {TableOf(f, "prod") : f \in WorldFiles}
DevDecls == UNION {TableOf(f, "dev") : f \in WorldFiles}
DevOnlyNames == {d[1] : d \in DevDecls} \ {d[1] : d \in ProdDecls}

\* C18: a name declared only in dev-dependencies tables is never in the
\* worklist, never fetched and never in the ResultSet, and every worklist
\* entry and every fetch carries a declaration of a production table.
C18_DevDependenciesOutside ==
    /\ \A i \in 1..Len(to_resolve) :
          /\ to_resolve[i].name \notin DevOnlyNames
          /\ <<to_resolve[i].name, to_resolve[i].dep>> \in ProdDecls
    /\ \A i \in 1..Len(fetchLog) :
          /\ fetchLog[i].name \notin DevOnlyNames
          /\ <<fetchLog[i].name, fetchLog[i].dep>> \in ProdDecls
    /\ DOMAIN resolved \cap DevOnlyNames = {}

\* a finished build that resolved a package whose manifest has a
\* dev-dependencies table naming d
C18_Witness ==
    /\ pc = "done"
    /\ D \in DevOnlyNames
    /\ topToml.dev_dependencies # <<>>
    /\ \E n \in DOMAIN resolved : D \in DOMAIN resolved[n].manifest.dev_dependencies
    /\ D \notin DOMAIN resolved

\* C19: for a manifest whose dependency table is empty, every step of a
\* resolve call leaves the cache and the I/O log as they are, fetches nothing,
\* keeps the ResultSet and the worklist empty and does not fail; the call
\* returns the empty ResultSet.
C19_EmptyManifest ==
    [][topToml.dependencies = <<>> =>
          /\ cache' = cache
          /\ io' = io
          /\ fetchLog' = <<>>
          /\ resolved' = EmptyMap
          /\ to_resolve' = <<>>
          /\ error' = ""
          /\ pc' \in {"resolving", "done"}
          /\ (pc = "resolving" => pc' = "done")]_vars

\* resolve returned for a manifest with only a dev-dependencies table, on a
\* cache that holds a package
C19_Witness ==
    /\ pc = "done"
    /\ calls >= 1
    /\ topToml.dependencies = <<>>
    /\ topToml.dev_dependencies # <<>>
    /\ resolved = EmptyMap
    /\ cache = WarmCache

-----------------------------------------------------------------------------
(* Properties of two invocations on one cache, checked under SpecRace *)

Partial(file) == file \in {NoFile, Garbage}

\* C20: nothing keeps an invocation from reading a directory another one is
\* populating. An invocation reads a missing or truncated manifest of a
\* well-formed package only while the other is between creating the directory
\* and the end of its extraction; the state in which it does so after finding
\* the directory present is reachable.
C20_PartialReadOnlyInRace ==
    \A p \in DOMAIN procs :
        (/\ procs[p].pc = "done"
         /\ Partial(procs[p].seen)
         /\ registry[<<procs[p].name, procs[p].version>>].wellformed)
            => procs[p].raced

\* one invocation found the directory present and read it with no manifest
\* in it, failing to load a package that is published well-formed and valid,
\* while the other had created the directory and not unpacked into it
C20_Witness ==
    \E p, q \in DOMAIN procs :
        /\ p # q
        /\ procs[p].pc = "done"
        /\ procs[p].hit
        /\ procs[p].seen = NoFile
        /\ procs[p].err = "ParseError"
        /\ procs[q].pc = "unpack"
        /\ cache[identity(q)] = Dir(NoFile)
        /\ Manifest_load_ok(registry[<<procs[p].name, procs[p].version>>].toml)

-----------------------------------------------------------------------------
(* Properties of the cache across builds, checked under Spec *)

\* the fetch populated its cache identity: it downloaded or cloned
Populates(f) == \E k \in 1..Len(f.io) : f.io[k][1] \in {"extract", "clone"}

\* C21: no step removes a cache identity; the set of identities changes only
\* in a step that is a Registry or Git fetch whose identity was absent, and
\* then by that identity alone; and when a call has failed, the identities
\* that the successful fetches of that call went through are still present.
C21_CachePersists ==
    /\ [](pc = "failed" =>
            \A i \in 1..Len(fetchLog) :
                (fetchLog[i].err = "" /\ fetchLog[i].variant \in {"Registry", "Git"}) =>
                    CacheIdentity(fetchLog[i]) \in DOMAIN cache)
    /\ [][/\ DOMAIN cache \subseteq DOMAIN cache'
          /\ \A id \in DOMAIN cache : cache'[id] = cache[id]
          /\ (DOMAIN cache' # DOMAIN cache =>
                /\ Fetched
                /\ LastFetch.variant \in {"Registry", "Git"}
                /\ CacheIdentity(LastFetch) \notin DOMAIN cache
                /\ DOMAIN cache' = DOMAIN cache \cup {CacheIdentity(LastFetch)})]_vars

\* the second build failed after one of its fetches had populated a
\* directory: that directory is in the cache, next to one that the first
\* build, which failed too, had populated
C21_Witness ==
    /\ pc = "failed"
    /\ calls = 2
    /\ prevResult = NoInfo
    /\ \E i \in 1..Len(fetchLog) :
          /\ fetchLog[i].err = ""
          /\ Populates(fetchLog[i])
          /\ CacheIdentity(fetchLog[i]) \in DOMAIN cache
    /\ \E id \in DOMAIN cache :
          \A i \in 1..Len(fetchLog) :
              ~(Populates(fetchLog[i]) /\ CacheIdentity(fetchLog[i]) = id)

-----------------------------------------------------------------------------
(* Properties of the new command, checked under SpecNew *)

IsFile(t, path) == path \in DOMAIN t /\ t[path].kind = "file"

NameAccepted(name) ==
    /\ Len(name) > 0
    /\ \A i \in 1..Len(name) : name[i] \in Letters \cup Digits \cup {"_", "-"}

\* C22: a run of new with here = false fails and leaves every file and
\* directory as it was when the name is empty, has a character that is not
\* alphanumeric, '_' or '-', or the target exists; otherwise it succeeds and
\* <name>/Quantum.toml and <name>/src/main.qm are files. A run with
\* here = true rejects the same names, and when it succeeds the two files are
\* in the current directory.
C22_NewCommand ==
    [][calls' = calls + 1 =>
          LET name == args'.name
              failed == args'.err # ""
          IN IF ~args'.here
             THEN IF ~NameAccepted(name) \/ <<name>> \in DOMAIN tree
                  THEN failed /\ tree' = tree
                  ELSE /\ ~failed
                       /\ IsFile(tree', <<name, QuantumTomlName>>)
                       /\ IsFile(tree', <<name, SrcName, MainQmName>>)
                       /\ \A q \in DOMAIN tree : q \in DOMAIN tree' /\ tree'[q] = tree[q]
             ELSE /\ (~NameAccepted(name) => failed /\ tree' = tree)
                  /\ (~failed =>
                        /\ IsFile(tree', <<QuantumTomlName>>)
                        /\ IsFile(tree', <<SrcName, MainQmName>>))]_vars

\* new a succeeded, and a second new a failed on the directory of the first
C22_Witness ==
    /\ calls = 2
    /\ args # NoArgs
    /\ args.name = <<"a">>
    /\ ~args.here
    /\ args.err = "Exists"
    /\ IsFile(tree, <<<<"a">>, QuantumTomlName>>)
    /\ tree[<<<<"a">>, QuantumTomlName>>].content = new_manifest_file(<<"a">>)
    /\ IsFile(tree, <<<<"a">>, SrcName, MainQmName>>)

-----------------------------------------------------------------------------
(* Properties of the depth guard, the order of the traversal and the number   *)
(* of fetches, checked under SpecGraph                                        *)

OpenChain(len) == registry = ChainRegistry(len, FALSE)

\* C23: the entry taken from the worklist ends the call with DepthExceeded,
\* without a fetch, exactly when its depth is greater than DepthLimit, also
\* when its name is in the ResultSet; an entry at depth DepthLimit whose name
\* is not resolved is fetched. So a chain of DepthLimit + 1 distinct names
\* resolves when its fetches succeed, and a chain of DepthLimit + 2 fails.
C23_DepthGuardFirst ==
    /\ []((Finished /\ AllFetchesOk /\ OpenChain(DepthLimit + 1)) =>
             (pc = "done" /\ Cardinality(DOMAIN resolved) = DepthLimit + 1))
    /\ []((Finished /\ AllFetchesOk /\ OpenChain(DepthLimit + 2)) =>
             (pc = "failed" /\ error = "DepthExceeded"))
    /\ [][(Running /\ to_resolve # <<>>) =>
             LET e == Head(to_resolve)
             IN /\ (e.depth > DepthLimit =>
                      /\ pc' = "failed"
                      /\ error' = "DepthExceeded"
                      /\ fetchLog' = fetchLog
                      /\ io' = io)
                /\ (e.depth <= DepthLimit => error' # "DepthExceeded")
                /\ (e.depth = DepthLimit /\ e.name \notin DOMAIN resolved) => Fetched]_vars

\* a cycle through DepthLimit + 1 names: every name was fetched, and the
\* entry that closes the cycle, whose name was the first to be resolved,
\* ended the call
C23_Witness ==
    /\ error = "DepthExceeded"
    /\ AllFetchesOk
    /\ Len(fetchLog) = DepthLimit + 1
    /\ fetchLog[Len(fetchLog)].depth = DepthLimit
    /\ registry = ChainRegistry(DepthLimit + 1, TRUE)
    /\ registry[<<fetchLog[Len(fetchLog)].name, V1>>].toml.dependencies[1][1] = fetchLog[1].name

\* the depth at which the name was fetched in this call
FetchDepth(n) == fetchLog[CHOOSE i \in 1..Len(fetchLog) : fetchLog[i].name = n].depth
FetchDecl(n) == fetchLog[CHOOSE i \in 1..Len(fetchLog) : fetchLog[i].name = n].dep

DirectDecls == to_hashmap(topToml.dependencies)

\* C24: the depths of the entries taken from the worklist never decrease
\* during a call; the worklist is ordered by depth; every entry still in the
\* worklist under a resolved name is at least as deep as the declaration the
\* record was fetched from, and the record has the version of that
\* declaration; a name the top-level manifest declares is resolved from that
\* declaration, at depth 0.
C24_BreadthFirstMinimal ==
    /\ [](/\ \A i, j \in 1..Len(to_resolve) :
                i <= j => to_resolve[i].depth <= to_resolve[j].depth
          /\ \A n \in DOMAIN resolved :
                /\ \E i \in 1..Len(fetchLog) : fetchLog[i].name = n
                /\ resolved[n].version = FetchDecl(n).version
                /\ \A i \in 1..Len(to_resolve) :
                      to_resolve[i].name = n => to_resolve[i].depth >= FetchDepth(n)
                /\ (n \in DOMAIN DirectDecls =>
                      FetchDepth(n) = 0 /\ FetchDecl(n) = DirectDecls[n]))
    /\ [][(Running /\ to_resolve # <<>> /\ to_resolve' # <<>>) =>
             Head(to_resolve').depth >= Head(to_resolve).depth]_vars

\* the manifest declares c directly and another of its dependencies declares
\* c in the other version, which was dropped
C24_Witness ==
    /\ pc = "done"
    /\ C \in DOMAIN DirectDecls
    /\ C \in DOMAIN resolved
    /\ FetchDepth(C) = 0
    /\ resolved[C].version = DirectDecls[C].version
    /\ \E n \in DOMAIN DirectDecls \ {C} :
          /\ n \in DOMAIN resolved
          /\ C \in DOMAIN resolved[n].manifest.dependencies
          /\ resolved[n].manifest.dependencies[C].version # resolved[C].version
          /\ FetchDepth(n) = 0

\* C25: within one call no name is fetched twice; a fetch that failed is the
\* last fetch of the call, which has failed with its error; and when the call
\* has succeeded there are as many fetches as entries in the ResultSet, one
\* for each.
C25_OneFetchPerName ==
    /\ \A i, j \in 1..Len(fetchLog) : i # j => fetchLog[i].name # fetchLog[j].name
    /\ \A i \in 1..Len(fetchLog) :
          fetchLog[i].err # "" =>
              /\ i = Len(fetchLog)
              /\ pc = "failed"
              /\ error = fetchLog[i].err
    /\ (pc = "done" =>
          /\ Len(fetchLog) = Cardinality(DOMAIN resolved)
          /\ {fetchLog[i].name : i \in 1..Len(fetchLog)} = DOMAIN resolved)

\* a and b were resolved and both declare c, which was fetched once
C25_Witness ==
    /\ pc = "done"
    /\ Len(fetchLog) = 3
    /\ Cardinality({i \in 1..Len(fetchLog) : fetchLog[i].name = C}) = 1
    /\ {A, B} \subseteq DOMAIN resolved
    /\ \A n \in {A, B} : C \in DOMAIN resolved[n].manifest.dependencies

-----------------------------------------------------------------------------
(* Properties of what a cache identity holds, checked under Spec *)

FetchFailures == {"FetchError", "NotFound", "ExtractError"}

\* C26: a Registry fetch that failed in its download or in its extraction
\* leaves its cache identity absent, so that the directory of a Registry
\* identity exists only after a download and an extraction that both
\* succeeded, and a later fetch of the same name and version downloads again.
C26_PresentOnlyAfterCompleteFetch ==
    \A i \in 1..Len(fetchLog) :
        LET f == fetchLog[i]
        IN (f.variant = "Registry" /\ f.err \in FetchFailures) =>
              CacheIdentity(f) \notin DOMAIN cache

\* the manifest as it was first published
Unpublished(file) == IF file.kind = "toml" THEN [file EXCEPT !.description = None] ELSE file

\* C27: whenever the fetch of a git declaration with a rev has succeeded, the
\* directory of its record is a checkout of that rev: the rev exists in the
\* repository and the directory holds the manifest of that rev. So a call in
\* which the clone succeeded and the checkout failed does not let a later
\* fetch of the declaration succeed.
C27_RevHonoured ==
    \A i \in 1..Len(fetchLog) :
        LET f == fetchLog[i]
        IN (f.variant = "Git" /\ f.dep.rev # None /\ f.err = "") =>
              /\ f.dep.rev \in DOMAIN FetchGit[f.dep.git]
              /\ Unpublished(cache[CacheIdentity(f)].toml) = FetchGit[f.dep.git][f.dep.rev]

-----------------------------------------------------------------------------
(* Properties of the cache keys, checked under SpecKeys *)

Cached(f) == f.variant \in {"Registry", "Git"}

\* what the identity of a fetch is made from
IdentityInputs(f) ==
    IF f.variant = "Registry"
    THEN <<f.name, f.dep.version>>
    ELSE <<f.dep.git, git_ref_str(f.dep)>>

\* C28: two Registry or Git fetches of one call use the same cache directory
\* only if they are of the same variant and have the same identity inputs:
\* name and version for Registry, url and ref for Git.
C28_NoCollision ==
    \A i, j \in 1..Len(fetchLog) :
        LET f == fetchLog[i]
            g == fetchLog[j]
        IN (Cached(f) /\ Cached(g) /\ CacheIdentity(f) = CacheIdentity(g)) =>
              /\ f.variant = g.variant
              /\ IdentityInputs(f) = IdentityInputs(g)

-----------------------------------------------------------------------------
(* Properties of the keys of the ResultSet and of the lockfile, checked under *)
(* Spec                                                                        *)

\* C29 as stated: every entry of the ResultSet and of the lockfile built from
\* it is stored under its own name field.
C29_KeyEqualsName ==
    \A n \in DOMAIN resolved :
        /\ resolved[n].name = n
        /\ from_resolved(resolved).dependencies[n].name = n

\* the variant that fetched the name in this call
FetchVariant(n) == fetchLog[CHOOSE i \in 1..Len(fetchLog) : fetchLog[i].name = n].variant

\* C29 as amended: every entry of the ResultSet is stored under the name its
\* declaration was keyed by, and its lockfile entry under the same key with
\* the same name field; the name field is the key for a Path record and the
\* package name of the loaded manifest for a Registry or Git record.
C29_KeyIsDeclaredName ==
    /\ DOMAIN from_resolved(resolved).dependencies = DOMAIN resolved
    /\ \A n \in DOMAIN resolved :
          /\ \E i \in 1..Len(fetchLog) : fetchLog[i].name = n /\ fetchLog[i].err = ""
          /\ from_resolved(resolved).dependencies[n].name = resolved[n].name
          /\ IF FetchVariant(n) = "Path"
             THEN resolved[n].name = n
             ELSE resolved[n].name = resolved[n].manifest.package.name

\* b is declared as the git repository g:a, whose package is named a: the
\* entry b of the ResultSet and of Quantum.lock has the name a
C29_Witness ==
    /\ pc = "done"
    /\ B \in DOMAIN resolved
    /\ resolved[B].name = A
    /\ FetchVariant(B) = "Git"
    /\ Lockfile_load(lockfile).ok
    /\ Lockfile_load(lockfile).lock.dependencies[B].name = A

-----------------------------------------------------------------------------
(* Properties of the lockfile across edits of the manifest, checked under     *)
(* SpecLock                                                                    *)

\* the entries of Quantum.lock, none when the file is absent
LockEntries(file) ==
    IF file.exists THEN Lockfile_load(file).lock.dependencies ELSE EmptyMap

\* C30: the step in which the dependency step of a build completes without
\* error (resolve has returned, or the build has found the dependency table
\* empty) leaves in Quantum.lock exactly the entries of the dependencies
\* resolved for the manifest as it is: none when its table is empty.
C30_LockfileMatchesManifest ==
    [][(pc' = "done" /\ (pc = "resolving" \/ calls' = calls + 1)) =>
          /\ LockEntries(lockfile') = from_resolved(resolved').dependencies
          /\ (topToml'.dependencies = <<>> => DOMAIN LockEntries(lockfile') = {})]_vars

-----------------------------------------------------------------------------
(* Properties of manifests, checked under SpecNew                             *)

\* the package root of the last run of new
NewRoot == IF args.here THEN <<>> ELSE <<args.name>>

\* C31: after a run of new that succeeded, the Quantum.toml it wrote is
\* accepted by Manifest::load, and the manifest loaded from it is the
\* manifest Manifest::new built.
C31_NewManifestLoadable ==
    (args # NoArgs /\ args.err = "") =>
        LET file == tree[Append(NewRoot, QuantumTomlName)].content
        IN /\ Manifest_load_ok(file)
           /\ Manifest_load(file) = Manifest_new(args.name)


-----------------------------------------------------------------------------
(* Properties of the publish command, checked under SpecPublish               *)

\* the upload requests in a log of operations
Uploads(log) == Cardinality({i \in 1..Len(log) : log[i][1] = "publish"})

\* a file below src whose name ends in .qm
IsSource(t, q) ==
    /\ Len(q) >= 2
    /\ q[1] = SrcName
    /\ t[q].kind = "file"
    /\ Len(q[Len(q)]) > 3
    /\ SubSeq(q[Len(q)], Len(q[Len(q)]) - 2, Len(q[Len(q)])) = <<".", "q", "m">>

\* what validate_package asks of the package in the current directory
ValidationPasses ==
    /\ topToml.kind = "toml"
    /\ topToml.description # None
    /\ topToml.license # None
    /\ \E q \in DOMAIN tree : IsSource(tree, q)

Confirmed == args.skip_confirm \/ args.answer = "yes"

\* the dependency step is done and every source file has its bytecode
BuildComplete ==
    /\ pc = "done"
    /\ \A q \in DOMAIN tree :
          IsSource(tree, q) =>
             LET name == q[Len(q)]
                 out == <<BuildName, ReleaseName,
                          SubSeq(name, 1, Len(name) - 2) \o QbcExt>>
             IN out \in DOMAIN tree /\ tree[out].kind = "file"

\* C32: an upload request is sent only when the validation passed, the user
\* confirmed or the prompt was skipped, and the release build is complete;
\* the prompt is answered only for a validated package, and the build changes
\* nothing before validation and confirmation. A command that returned
\* because the validation failed or the user declined has written no file
\* and sent nothing, declining returns Ok, a command whose build failed has
\* sent no upload request, and a command that returned writes and sends
\* nothing more.
C32_PublishOrdering ==
    /\ [][Uploads(io') # Uploads(io) =>
             /\ Uploads(io') = Uploads(io) + 1
             /\ ValidationPasses
             /\ Confirmed
             /\ BuildComplete]_vars
    /\ [][(args # NoArgs /\ args.answer = "none" /\ args'.answer \in {"yes", "no"}) =>
             (ValidationPasses /\ ~args.skip_confirm)]_vars
    /\ [][(tree' # tree \/ cache' # cache \/ lockfile' # lockfile \/ io' # io
              \/ (pc' # pc /\ pc' # "idle")) =>
             (args # NoArgs /\ ValidationPasses /\ Confirmed)]_vars
    /\ []((InPublish("returned") /\ ~ValidationPasses) =>
             (args.err # "" /\ tree = args.tree /\ io = args.io))
    /\ []((InPublish("returned") /\ args.answer = "no") =>
             (args.err = "" /\ tree = args.tree /\ io = args.io))
    /\ []((InPublish("returned") /\ ValidationPasses /\ Confirmed /\ ~BuildComplete) =>
             (args.err # "" /\ Uploads(io) = Uploads(args.io)))
    /\ [][InPublish("returned") => (tree' = tree /\ io' = io)]_vars

\* the user confirmed, the build downloaded the dependency and compiled two
\* source files, and the registry accepted the upload
C32_Witness ==
    /\ InPublish("returned")
    /\ args.err = ""
    /\ args.answer = "yes"
    /\ Uploads(io) = 1
    /\ \E i \in 1..Len(io) : io[i][1] = "download"
    /\ Cardinality({q \in DOMAIN tree : IsSource(tree, q)}) = 2
    /\ BuildComplete


-----------------------------------------------------------------------------
(* Properties of the version check, checked under SpecVersion                 *)

DecimalDigits == <<"0", "1", "2", "3", "4", "5", "6", "7", "8", "9">>

\* the number a text of at most five decimal digits denotes
RECURSIVE Number(_)
Number(text) ==
    IF text = <<>> THEN 0
    ELSE 10 * Number(SubSeq(text, 1, Len(text) - 1))
         + ((CHOOSE d \in 1..10 : DecimalDigits[d] = text[Len(text)]) - 1)

\* the text is an optional '+' and one or more decimal digits whose number is
\* at most 4294967295 = 42949 * 100000 + 67295
IsU32Text(text) ==
    LET digits == IF text # <<>> /\ text[1] = "+" THEN SubSeq(text, 2, Len(text)) ELSE text
        n == Len(digits)
        zeros == Cardinality({i \in 1..n : \A j \in 1..i : digits[j] = "0"})
        sig == SubSeq(digits, zeros + 1, n)
        hi == Number(SubSeq(sig, 1, Len(sig) - 5))
        lo == Number(SubSeq(sig, Len(sig) - 4, Len(sig)))
    IN /\ n >= 1
       /\ \A i \in 1..n : \E d \in 1..10 : DecimalDigits[d] = digits[i]
       /\ Len(sig) <= 10
       /\ (Len(sig) = 10 => (hi < 42949 \/ (hi = 42949 /\ lo <= 67295)))

\* the text has exactly two dots, and the three texts they separate are u32 texts
ThreeU32Parts(v) ==
    LET dots == {i \in 1..Len(v) : v[i] = "."}
    IN /\ Cardinality(dots) = 2
       /\ \E i, j \in dots :
             /\ i < j
             /\ IsU32Text(SubSeq(v, 1, i - 1))
             /\ IsU32Text(SubSeq(v, i + 1, j - 1))
             /\ IsU32Text(SubSeq(v, j + 1, Len(v)))

====
